---- MODULE Spec2Model ----
(***************************************************************************)
(* A model of lbasedb: the block file Seq, the typed Col, the keyed List,  *)
(* the Datatype codec and the connection object Conn (src/src/conn.rs).    *)
(*                                                                         *)
(* Files are sequences of storage units.  A column file (.col) is a        *)
(* sequence of bytes; a catalog file (feed.list, col.list) is a sequence   *)
(* of records, one record being one block of Col<T> (size_of::<T>() bytes  *)
(* reinterpreted in place, src/src/utils.rs).  Positions are 0-based as in *)
(* the source; file[i + 1] is the unit at position i.                      *)
(***************************************************************************)
EXTENDS Integers, Sequences, FiniteSets, TLC

VARIABLES
    fs_feed_list,       \* contents of {path}/feed.list: a sequence of FeedItem
    fs_dirs,            \* the feed directories: name -> [col_list, seqs]
    feed_list,          \* Conn.feed_list: the ixmap of the List over feed.list
    feed_map,           \* Conn.feed_map: feed name -> FeedItem
    col_list_mapping,   \* Conn.col_list_mapping: feed name -> ixmap of its col.list
    col_map_mapping,    \* Conn.col_map_mapping: feed name -> col name -> ColItem
    seq_mapping,        \* Conn.seq_mapping: feed name -> col name -> Seq handle
    last,               \* the last call: its name, its result, whether every call
                        \* so far returned Ok, and the number of calls made
    tasks               \* the concurrent tasks sharing the Conn (SpecConc)

vars == << fs_feed_list, fs_dirs, feed_list, feed_map, col_list_mapping,
           col_map_mapping, seq_mapping, last, tasks >>

(***************************************************************************)
(* Finite maps (HashMap).                                                  *)
(***************************************************************************)
EmptyMap == << >>

MapRemove(m, k) == [x \in (DOMAIN m) \ {k} |-> m[x]]

MapInsert(m, k, v) == [x \in (DOMAIN m) \cup {k} |-> IF x = k THEN v ELSE m[x]]

Zeros(n, z) == [i \in 1..n |-> z]

(***************************************************************************)
(* Seq: a file as a sequence of blocks of block_size units (seq.rs).       *)
(* z is the zero unit a growing file is filled with.                       *)
(***************************************************************************)
\* Seq::size: data.len() / block_size
Seq_size(file, block_size) == Len(file) \div block_size

\* a resize that leaves the file as it is
Seq_resize_skipped(file, block_size, new_size, z) == file

\* Seq::resize: file.set_len(new_size * block_size); growth appends zeros
Seq_resize(file, block_size, new_size, z) ==
    LET byte_size == new_size * block_size
    IN  IF byte_size <= Len(file)
        THEN SubSeq(file, 1, byte_size)
        ELSE file \o Zeros(byte_size - Len(file), z)

\* seek(Start(off)) then write_all(block): a write past the end fills the
\* hole with zeros; an empty write changes nothing
FileWrite(file, off, block, z) ==
    IF Len(block) = 0 THEN file
    ELSE LET pre  == IF off <= Len(file)
                     THEN SubSeq(file, 1, off)
                     ELSE file \o Zeros(off - Len(file), z)
             post == SubSeq(file, off + Len(block) + 1, Len(file))
         IN  pre \o block \o post

\* an update that seeks to the end of the file instead of ix * block_size
Seq_update_at_end(file, block_size, ix, block, z) == file \o block

\* Seq::update: seek to ix * block_size, write_all, flush
Seq_update(file, block_size, ix, block, z) ==
    FileWrite(file, ix * block_size, block, z)

\* Seq::push: seek(End(0)), write_all; returns offset / block_size
Seq_push(file, block_size, block) ==
    [file |-> file \o block, ix |-> Len(file) \div block_size]

\* Seq::get: seek to ix * block_size, read_exact n units; UnexpectedEof when
\* the file ends before n units were read
Seq_get_ok(file, block_size, ix, n) ==
    n = 0 \/ ix * block_size + n <= Len(file)

Seq_get(file, block_size, ix, n) ==
    SubSeq(file, ix * block_size + 1, ix * block_size + n)

(***************************************************************************)
(* Datatype and Dataunit (datatype.rs).  A Datatype is [k, n]; a Dataunit  *)
(* is [tag, v] with v the value's bytes: an i64 (tag "I") and an f64 (tag  *)
(* "F") are their 8 bytes in host order (little-endian), so `x as i32`     *)
(* keeps the first 4 bytes and i32 -> i64 extends the sign.                *)
(***************************************************************************)
Dt(k) == [k |-> k, n |-> 0]

DtBytes(n) == [k |-> "Bytes", n |-> n]

\* Datatype::size
Datatype_size(dt) ==
    CASE dt.k = "Int64"   -> 8
      [] dt.k = "Float64" -> 8
      [] dt.k = "Int32"   -> 4
      [] dt.k = "Float32" -> 4
      [] dt.k = "Bytes"   -> dt.n
      [] dt.k = "String"  -> dt.n
      [] dt.k = "Blob"    -> 0
      [] dt.k = "Text"    -> 0

\* Vec::resize(len, 0): truncate or pad with zeros
VecResize(v, len) ==
    IF len <= Len(v) THEN SubSeq(v, 1, len) ELSE v \o Zeros(len - Len(v), 0)

\* Datatype::to_bytes: None on a tag that does not match the datatype
Datatype_to_bytes(dt, x) ==
    CASE dt.k = "Int64" ->
            IF x.tag = "I" THEN [some |-> TRUE, block |-> x.v]
            ELSE [some |-> FALSE, block |-> << >>]
      [] dt.k = "Int32" ->
            IF x.tag = "I" THEN [some |-> TRUE, block |-> SubSeq(x.v, 1, 4)]
            ELSE [some |-> FALSE, block |-> << >>]
      [] dt.k = "Float64" ->
            IF x.tag = "F" THEN [some |-> TRUE, block |-> x.v]
            ELSE [some |-> FALSE, block |-> << >>]
      [] dt.k = "Bytes" ->
            IF x.tag = "S" THEN [some |-> TRUE, block |-> VecResize(x.v, dt.n)]
            ELSE [some |-> FALSE, block |-> << >>]
      [] OTHER -> [some |-> FALSE, block |-> << >>]

\* the sign extension of i32 -> i64 (`.into()`)
SignExtend(b4) == IF b4[4] >= 128 THEN <<255, 255, 255, 255>> ELSE <<0, 0, 0, 0>>

\* Datatype::from_bytes
Datatype_from_bytes(dt, block) ==
    CASE dt.k = "Int64"   -> [tag |-> "I", v |-> SubSeq(block, 1, 8)]
      [] dt.k = "Int32"   -> [tag |-> "I",
                              v |-> SubSeq(block, 1, 4) \o SignExtend(block)]
      [] dt.k = "Float64" -> [tag |-> "F", v |-> SubSeq(block, 1, 8)]
      [] dt.k = "Bytes"   -> [tag |-> "S", v |-> SubSeq(block, 1, dt.n)]
      [] OTHER            -> [tag |-> "S", v |-> block]

\* FromStr for Datatype: the six plain tokens, then Bytes[len] and
\* String[len] with len parsed as a usize (digits after an optional '+');
\* anything else is Err("Unknown datatype")
Datatype_from_str(s) ==
    LET Digits == <<"0", "1", "2", "3", "4", "5", "6", "7", "8", "9">>
        DigitOf(ch) == CHOOSE d \in 0..9 : Digits[d + 1] = ch
        IsDigit(ch) == \E d \in 0..9 : Digits[d + 1] = ch
        RECURSIVE Value(_)
        Value(t) == IF Len(t) = 0 THEN 0
                    ELSE 10 * Value(SubSeq(t, 1, Len(t) - 1))
                         + DigitOf(SubSeq(t, Len(t), Len(t)))
        \* str::parse::<usize>
        Usize(t) ==
            LET body == IF Len(t) > 0 /\ SubSeq(t, 1, 1) = "+"
                        THEN SubSeq(t, 2, Len(t)) ELSE t
            IN  IF /\ Len(body) > 0
                   /\ \A i \in 1..Len(body) : IsDigit(SubSeq(body, i, i))
                THEN [ok |-> TRUE, n |-> Value(body)]
                ELSE [ok |-> FALSE, n |-> 0]
        \* unpack_from_pattern: strip_prefix, then strip_suffix
        Unpack(text, pref, suff) ==
            IF /\ Len(text) >= Len(pref) + Len(suff)
               /\ SubSeq(text, 1, Len(pref)) = pref
               /\ SubSeq(text, Len(text) - Len(suff) + 1, Len(text)) = suff
            THEN [some |-> TRUE,
                  s |-> SubSeq(text, Len(pref) + 1, Len(text) - Len(suff))]
            ELSE [some |-> FALSE, s |-> ""]
        Sized(k, len) == IF len.ok THEN [ok |-> TRUE, dt |-> [k |-> k, n |-> len.n]]
                         ELSE [ok |-> FALSE, dt |-> Dt("Int64")]
    IN  IF s \in {"Int64", "Float64", "Int32", "Float32", "Blob", "Text"}
        THEN [ok |-> TRUE, dt |-> Dt(s)]
        ELSE IF Unpack(s, "Bytes[", "]").some
        THEN Sized("Bytes", Usize(Unpack(s, "Bytes[", "]").s))
        ELSE IF Unpack(s, "String[", "]").some
        THEN Sized("String", Usize(Unpack(s, "String[", "]").s))
        ELSE [ok |-> FALSE, dt |-> Dt("Int64")]

(***************************************************************************)
(* FeedItem and ColItem (items.rs) and their zero blocks.                  *)
(***************************************************************************)
\* validate_allowed_name: the name matches
\* ^[a-zA-Z_][a-zA-Z_0-9]*(\.[a-zA-Z_][a-zA-Z_0-9]*)*$
validate_allowed_name(name) ==
    LET Start == {"a", "b", "c", "d", "e", "f", "g", "h", "i", "j", "k", "l",
                  "m", "n", "o", "p", "q", "r", "s", "t", "u", "v", "w", "x",
                  "y", "z", "A", "B", "C", "D", "E", "F", "G", "H", "I", "J",
                  "K", "L", "M", "N", "O", "P", "Q", "R", "S", "T", "U", "V",
                  "W", "X", "Y", "Z", "_"}
        Digit == {"0", "1", "2", "3", "4", "5", "6", "7", "8", "9"}
        ch(i) == SubSeq(name, i, i)
    IN  /\ Len(name) > 0
        /\ \A i \in 1..Len(name) :
              IF i = 1 \/ ch(i - 1) = "."
              THEN ch(i) \in Start
              ELSE \/ ch(i) \in Start \cup Digit
                   \/ ch(i) = "." /\ i < Len(name)

\* a FeedItem that starts with one row
FeedItem_new_sized(name) ==
    [res  |-> IF validate_allowed_name(name) THEN "Ok" ELSE "InvalidInput",
     item |-> [name |-> name, size |-> 1]]

\* FeedItem::new: InvalidInput for a name that is not allowed, else the item
\* with size 0
FeedItem_new(name) ==
    [res  |-> IF validate_allowed_name(name) THEN "Ok" ELSE "InvalidInput",
     item |-> [name |-> name, size |-> 0]]

\* ColItem::new: InvalidInput for a name that is not allowed; then the
\* datatype string is parsed and the result unwrapped
ColItem_new(name, datatype) ==
    LET dt == Datatype_from_str(datatype)
    IN  [res  |-> IF ~validate_allowed_name(name) THEN "InvalidInput"
                  ELSE IF ~dt.ok THEN "Panic"
                  ELSE "Ok",
         item |-> [name |-> name, datatype |-> dt.dt]]

\* FeedItem::rename / ColItem::rename: a name that is not allowed is an Err
\* and the item keeps its name; the callers in Conn drop the result
Item_rename(item, name) ==
    IF validate_allowed_name(name) THEN [item EXCEPT !.name = name] ELSE item

\* ListKeyTrait::key: bytes_to_str(&self.name)
Key(rec) == rec.name

\* a block of zero bytes read as a FeedItem: empty name, size 0
ZeroFeedItem == [name |-> "", size |-> 0]

\* a block of zero bytes read as a ColItem: empty name, first variant
ZeroColItem == [name |-> "", datatype |-> Dt("Int64")]

(***************************************************************************)
(* List: the keyed index over a Col (list.rs).  A List value is            *)
(* [col, ixmap]: the records of its file and the in-memory index.  Every   *)
(* operation returns [col, ixmap, res].                                    *)
(***************************************************************************)
KeysOf(file) == {Key(file[i]) : i \in 1..Len(file)}

LastPos(file, k) ==
    CHOOSE i \in 1..Len(file) :
        /\ Key(file[i]) = k
        /\ \A j \in 1..Len(file) : Key(file[j]) = k => j <= i

\* List::_build_ixmap: collect (key, ix) pairs; a later pair replaces an earlier
List_build_ixmap(file) == [k \in KeysOf(file) |-> LastPos(file, k) - 1]

\* List::new
List_new(file) == [col |-> file, ixmap |-> List_build_ixmap(file)]

\* List::exists
List_exists(l, key) == key \in DOMAIN l.ixmap

\* List::map: collect (key, rec) pairs into a HashMap
List_map(file) == [k \in KeysOf(file) |-> file[LastPos(file, k)]]

\* List::detail
List_detail(l, key) ==
    IF key \in DOMAIN l.ixmap
    THEN IF Seq_get_ok(l.col, 1, l.ixmap[key], 1)
         THEN [res |-> "Ok", rec |-> l.col[l.ixmap[key] + 1]]
         ELSE [res |-> "UnexpectedEof", rec |-> << >>]
    ELSE [res |-> "NotFound", rec |-> << >>]

\* an add that does not look the key up
List_add_unchecked(l, rec) ==
    LET p == Seq_push(l.col, 1, <<rec>>)
    IN  [col |-> p.file,
         ixmap |-> MapInsert(l.ixmap, Key(rec), p.ix),
         res |-> "Ok"]

\* List::add
List_add(l, rec) ==
    IF Key(rec) \notin DOMAIN l.ixmap
    THEN LET p == Seq_push(l.col, 1, <<rec>>)
         IN  [col |-> p.file,
              ixmap |-> MapInsert(l.ixmap, Key(rec), p.ix),
              res |-> "Ok"]
    ELSE [col |-> l.col, ixmap |-> l.ixmap, res |-> "AlreadyExists"]

\* List::remove: the tail record overwrites the removed one, the file
\* shrinks by one and the key leaves the index
List_remove(l, key, z) ==
    IF key \in DOMAIN l.ixmap
    THEN LET ix   == l.ixmap[key]
             size == Seq_size(l.col, 1)
         IN  IF size = 0
             THEN [col |-> l.col, ixmap |-> l.ixmap, res |-> "Panic"]
             ELSE LET rec  == l.col[size]
                      col1 == Seq_update(l.col, 1, ix, <<rec>>, z)
                      col2 == Seq_resize(col1, 1, size - 1, z)
                  IN  [col |-> col2,
                       ixmap |-> MapRemove(l.ixmap, key),
                       res |-> "Ok"]
    ELSE [col |-> l.col, ixmap |-> l.ixmap, res |-> "NotFound"]

\* List::modify
List_modify(l, key, rec, z) ==
    IF key \in DOMAIN l.ixmap
    THEN LET ix      == l.ixmap[key]
             new_key == Key(rec)
         IN  IF new_key = key
             THEN [col |-> Seq_update(l.col, 1, ix, <<rec>>, z),
                   ixmap |-> l.ixmap, res |-> "Ok"]
             ELSE IF new_key \in DOMAIN l.ixmap
             THEN [col |-> l.col, ixmap |-> l.ixmap, res |-> "AlreadyExists"]
             ELSE [col |-> Seq_update(l.col, 1, ix, <<rec>>, z),
                   ixmap |-> MapInsert(MapRemove(l.ixmap, key), new_key, ix),
                   res |-> "Ok"]
    ELSE [col |-> l.col, ixmap |-> l.ixmap, res |-> "NotFound"]

(***************************************************************************)
(* Conn (conn.rs).  A connection state `st` is the record of the files     *)
(* under `path` and of the five fields of Conn.  Every method is an        *)
(* operator from a state to [st, res]: the state it leaves and its result  *)
(* ("Ok", an ErrorKind, or "Panic" for an unwrap or an index that fails).  *)
(***************************************************************************)
St == [fs_feed_list     |-> fs_feed_list,
       fs_dirs          |-> fs_dirs,
       feed_list        |-> feed_list,
       feed_map         |-> feed_map,
       col_list_mapping |-> col_list_mapping,
       col_map_mapping  |-> col_map_mapping,
       seq_mapping      |-> seq_mapping]

Ret(st, res) == [st |-> st, res |-> res]

\* a directory just made by create_dir_all: no col.list, no column file
EmptyDir == [has_col_list |-> FALSE, col_list |-> << >>, seqs |-> EmptyMap]

\* create_dir_all({path}/{feed_name})
CreateDirAll(st, feed_name) ==
    IF feed_name \in DOMAIN st.fs_dirs THEN st
    ELSE [st EXCEPT !.fs_dirs = MapInsert(@, feed_name, EmptyDir)]

\* the List over feed.list held in Conn.feed_list
FeedList(st) == [col |-> st.fs_feed_list, ixmap |-> st.feed_list]

PutFeedList(st, l) == [st EXCEPT !.fs_feed_list = l.col, !.feed_list = l.ixmap]

\* the List over {feed}/col.list held in col_list_mapping[feed]
ColList(st, feed_name) ==
    [col |-> st.fs_dirs[feed_name].col_list,
     ixmap |-> st.col_list_mapping[feed_name]]

PutColList(st, feed_name, l) ==
    [st EXCEPT !.fs_dirs[feed_name].col_list = l.col,
               !.col_list_mapping[feed_name] = l.ixmap]

\* the file behind a Seq handle
SeqFile(st, h) == st.fs_dirs[h.feed].seqs[h.col]

PutSeqFile(st, h, data) == [st EXCEPT !.fs_dirs[h.feed].seqs[h.col] = data]

\* Conn::feed_exists
feed_exists(st, feed_name) == feed_name \in DOMAIN st.feed_map

\* Conn::col_exists: col_map_mapping[feed_name] is indexed, the caller has
\* checked that the feed is there
col_exists(st, feed_name, col_name) ==
    col_name \in DOMAIN st.col_map_mapping[feed_name]

\* a call of Conn::col_exists: indexing col_map_mapping with a feed that is
\* not there panics (HashMap's Index)
col_exists_call(st, feed_name, col_name) ==
    IF feed_name \notin DOMAIN st.col_map_mapping THEN "Panic"
    ELSE IF col_exists(st, feed_name, col_name) THEN "true"
    ELSE "false"

\* a _col_open whose Seq::new does not create a missing file
col_open_strict(st, feed_name, col_name, col_item) ==
    IF \/ feed_name \notin DOMAIN st.fs_dirs
       \/ col_name \notin DOMAIN st.fs_dirs[feed_name].seqs
    THEN Ret(st, "NotFound")
    ELSE IF \/ feed_name \notin DOMAIN st.col_map_mapping
            \/ feed_name \notin DOMAIN st.seq_mapping
    THEN Ret(st, "Panic")
    ELSE Ret([st EXCEPT
                 !.col_map_mapping[feed_name] =
                     MapInsert(@, col_name, col_item),
                 !.seq_mapping[feed_name] =
                     MapInsert(@, col_name,
                         [feed |-> feed_name, col |-> col_name,
                          block_size |-> Datatype_size(col_item.datatype)])],
             "Ok")

\* Conn::_col_open: Seq::new opens the column file, creating it when it is
\* missing, then the col item and the handle enter the two maps
col_open(st, feed_name, col_name, col_item) ==
    IF feed_name \notin DOMAIN st.fs_dirs THEN Ret(st, "NotFound")
    ELSE LET st1 == IF col_name \in DOMAIN st.fs_dirs[feed_name].seqs THEN st
                    ELSE [st EXCEPT !.fs_dirs[feed_name].seqs =
                                        MapInsert(@, col_name, << >>)]
             seq == [feed |-> feed_name, col |-> col_name,
                     block_size |-> Datatype_size(col_item.datatype)]
         IN  IF \/ feed_name \notin DOMAIN st.col_map_mapping
                \/ feed_name \notin DOMAIN st.seq_mapping
             THEN Ret(st1, "Panic")
             ELSE Ret([st1 EXCEPT
                          !.col_map_mapping[feed_name] =
                              MapInsert(@, col_name, col_item),
                          !.seq_mapping[feed_name] =
                              MapInsert(@, col_name, seq)],
                      "Ok")

\* Conn::_col_close: the handle and the col item leave the two maps
col_close(st, feed_name, col_name) ==
    IF \/ feed_name \notin DOMAIN st.seq_mapping
       \/ feed_name \notin DOMAIN st.col_map_mapping
       \/ col_name \notin DOMAIN st.col_map_mapping[feed_name]
    THEN Ret(st, "Panic")
    ELSE Ret([st EXCEPT
                 !.seq_mapping[feed_name] = MapRemove(@, col_name),
                 !.col_map_mapping[feed_name] = MapRemove(@, col_name)],
             "Ok")

\* the loop of _feed_open over col_map: _col_open for every column of the
\* catalog (the columns are independent, so the order does not show)
RECURSIVE OpenCols(_, _, _, _)
OpenCols(st, feed_name, col_map, todo) ==
    IF todo = {} THEN Ret(st, "Ok")
    ELSE LET c == CHOOSE x \in todo : TRUE
             r == col_open(st, feed_name, c, col_map[c])
         IN  IF r.res # "Ok" THEN r
             ELSE OpenCols(r.st, feed_name, col_map, todo \ {c})

\* Conn::_feed_open: List::new on {feed}/col.list (created when missing),
\* empty entries in col_map_mapping and seq_mapping, every column opened,
\* then the entries of feed_map and col_list_mapping
feed_open(st, feed_name, feed_item) ==
    IF feed_name \notin DOMAIN st.fs_dirs THEN Ret(st, "NotFound")
    ELSE LET st1      == [st EXCEPT !.fs_dirs[feed_name].has_col_list = TRUE]
             col_list == List_new(st1.fs_dirs[feed_name].col_list)
             col_map  == List_map(col_list.col)
             st2      == [st1 EXCEPT
                             !.col_map_mapping =
                                 MapInsert(@, feed_name, EmptyMap),
                             !.seq_mapping =
                                 MapInsert(@, feed_name, EmptyMap)]
             r        == OpenCols(st2, feed_name, col_map, DOMAIN col_map)
         IN  IF r.res # "Ok" THEN r
             ELSE Ret([r.st EXCEPT
                          !.feed_map = MapInsert(@, feed_name, feed_item),
                          !.col_list_mapping =
                              MapInsert(@, feed_name, col_list.ixmap)],
                      "Ok")

\* Conn::_feed_close: the four entries of the feed leave the maps
feed_close(st, feed_name) ==
    LET st1 == [st EXCEPT
                   !.seq_mapping = MapRemove(@, feed_name),
                   !.col_list_mapping = MapRemove(@, feed_name),
                   !.col_map_mapping = MapRemove(@, feed_name)]
    IN  IF feed_name \notin DOMAIN st.feed_map THEN Ret(st1, "Panic")
        ELSE Ret([st1 EXCEPT !.feed_map = MapRemove(@, feed_name)], "Ok")

\* Conn::feed_add: the directory, the item, the record in feed.list, then
\* the open feed.  The Result of FeedItem::new is used as the item, so an Err
\* ends the call there, after the directory was made
feed_add(st, feed_name) ==
    IF feed_exists(st, feed_name) THEN Ret(st, "AlreadyExists")
    ELSE LET st1       == CreateDirAll(st, feed_name)
             n         == FeedItem_new(feed_name)
             feed_item == n.item
             a         == List_add(FeedList(st1), feed_item)
         IN  IF n.res # "Ok" THEN Ret(st1, n.res)
             ELSE IF a.res # "Ok" THEN Ret(st1, a.res)
             ELSE feed_open(PutFeedList(st1, a), feed_name, feed_item)

\* remove_dir_all({path}/{feed_name})
RemoveDirAll(st, feed_name) ==
    IF feed_name \notin DOMAIN st.fs_dirs THEN Ret(st, "NotFound")
    ELSE Ret([st EXCEPT !.fs_dirs = MapRemove(@, feed_name)], "Ok")

\* Conn::feed_remove
feed_remove(st, feed_name) ==
    IF ~feed_exists(st, feed_name) THEN Ret(st, "NotFound")
    ELSE LET c == feed_close(st, feed_name)
             r == List_remove(FeedList(c.st), feed_name, ZeroFeedItem)
         IN  IF c.res # "Ok" THEN c
             ELSE IF r.res # "Ok" THEN Ret(c.st, r.res)
             ELSE RemoveDirAll(PutFeedList(c.st, r), feed_name)

\* rename({path}/{name}, {path}/{name_new}) of a directory: an empty
\* directory in the way is replaced, any other is an error
RenameDir(st, name, name_new) ==
    IF name \notin DOMAIN st.fs_dirs THEN Ret(st, "NotFound")
    ELSE IF /\ name_new \in DOMAIN st.fs_dirs
            /\ st.fs_dirs[name_new] # EmptyDir
    THEN Ret(st, "DirectoryNotEmpty")
    ELSE Ret([st EXCEPT !.fs_dirs =
                 MapInsert(MapRemove(@, name), name_new, st.fs_dirs[name])],
             "Ok")

\* Conn::feed_rename
feed_rename(st, name, name_new) ==
    IF ~feed_exists(st, name) THEN Ret(st, "NotFound")
    ELSE IF feed_exists(st, name_new) THEN Ret(st, "AlreadyExists")
    ELSE LET c         == feed_close(st, name)
             feed_item == Item_rename(st.feed_map[name], name_new)
             m         == List_modify(FeedList(c.st), name, feed_item,
                                      ZeroFeedItem)
             d         == RenameDir(PutFeedList(c.st, m), name, name_new)
         IN  IF c.res # "Ok" THEN c
             ELSE IF m.res # "Ok" THEN Ret(c.st, m.res)
             ELSE IF d.res # "Ok" THEN d
             ELSE feed_open(d.st, name_new, feed_item)

\* rename of {feed}/{name}.col to {feed}/{name_new}.col: a file in the way
\* is replaced
RenameFile(st, feed_name, name, name_new) ==
    IF \/ feed_name \notin DOMAIN st.fs_dirs
       \/ name \notin DOMAIN st.fs_dirs[feed_name].seqs
    THEN Ret(st, "NotFound")
    ELSE Ret([st EXCEPT !.fs_dirs[feed_name].seqs =
                 MapInsert(MapRemove(@, name), name_new,
                           st.fs_dirs[feed_name].seqs[name])],
             "Ok")

\* tokio::fs::remove_file({feed}/{col_name}.col)
RemoveFile(st, feed_name, col_name) ==
    IF \/ feed_name \notin DOMAIN st.fs_dirs
       \/ col_name \notin DOMAIN st.fs_dirs[feed_name].seqs
    THEN Ret(st, "NotFound")
    ELSE Ret([st EXCEPT !.fs_dirs[feed_name].seqs = MapRemove(@, col_name)],
             "Ok")

\* Conn::col_rename
col_rename(st, feed_name, name, name_new) ==
    IF ~feed_exists(st, feed_name) THEN Ret(st, "NotFound")
    ELSE IF feed_name \notin DOMAIN st.col_map_mapping THEN Ret(st, "Panic")
    ELSE IF ~col_exists(st, feed_name, name) THEN Ret(st, "NotFound")
    ELSE IF col_exists(st, feed_name, name_new) THEN Ret(st, "AlreadyExists")
    ELSE LET c        == col_close(st, feed_name, name)
             col_item == Item_rename(st.col_map_mapping[feed_name][name],
                                     name_new)
             m        == List_modify(ColList(c.st, feed_name), name, col_item,
                                     ZeroColItem)
             f        == RenameFile(PutColList(c.st, feed_name, m),
                                    feed_name, name, name_new)
         IN  IF c.res # "Ok" THEN c
             ELSE IF feed_name \notin DOMAIN c.st.col_list_mapping
             THEN Ret(c.st, "Panic")
             ELSE IF m.res # "Ok" THEN Ret(c.st, m.res)
             ELSE IF f.res # "Ok" THEN f
             ELSE col_open(f.st, feed_name, name_new, col_item)

\* Conn::col_add: the catalog record, the open column, then the column file
\* resized to the size of the feed
col_add(st, feed_name, col_name, datatype) ==
    IF ~feed_exists(st, feed_name) THEN Ret(st, "NotFound")
    ELSE IF feed_name \notin DOMAIN st.col_map_mapping THEN Ret(st, "Panic")
    ELSE IF col_exists(st, feed_name, col_name) THEN Ret(st, "AlreadyExists")
    ELSE IF feed_name \notin DOMAIN st.col_list_mapping THEN Ret(st, "Panic")
    ELSE LET n        == ColItem_new(col_name, datatype)
             col_item == n.item
             a        == List_add(ColList(st, feed_name), col_item)
             o        == col_open(PutColList(st, feed_name, a), feed_name,
                                  col_name, col_item)
             size     == o.st.feed_map[feed_name].size
             seq      == o.st.seq_mapping[feed_name][col_name]
         IN  IF n.res # "Ok" THEN Ret(st, n.res)
             ELSE IF a.res # "Ok" THEN Ret(st, a.res)
             ELSE IF o.res # "Ok" THEN o
             ELSE Ret(PutSeqFile(o.st, seq,
                          Seq_resize(SeqFile(o.st, seq), seq.block_size,
                                     size, 0)),
                      "Ok")

\* Conn::col_remove
col_remove(st, feed_name, col_name) ==
    IF ~feed_exists(st, feed_name) THEN Ret(st, "NotFound")
    ELSE IF feed_name \notin DOMAIN st.col_map_mapping THEN Ret(st, "Panic")
    ELSE IF ~col_exists(st, feed_name, col_name) THEN Ret(st, "NotFound")
    ELSE LET c == col_close(st, feed_name, col_name)
             r == List_remove(ColList(c.st, feed_name), col_name, ZeroColItem)
         IN  IF c.res # "Ok" THEN c
             ELSE IF feed_name \notin DOMAIN c.st.col_list_mapping
             THEN Ret(c.st, "Panic")
             ELSE IF r.res # "Ok" THEN Ret(c.st, r.res)
             ELSE RemoveFile(PutColList(c.st, feed_name, r), feed_name,
                             col_name)

\* Conn::size_get
size_get(st, feed_name) ==
    IF feed_name \in DOMAIN st.feed_map
    THEN [res |-> "Ok", size |-> st.feed_map[feed_name].size]
    ELSE [res |-> "NotFound", size |-> 0]

\* the tasks size_set spawns: every Seq of the feed is resized; set_len
\* returns an error for the columns of `failing` and leaves their files alone
RECURSIVE ResizeAll(_, _, _, _, _)
ResizeAll(st, seqs, todo, size, failing) ==
    IF todo = {} THEN st
    ELSE LET c   == CHOOSE x \in todo : TRUE
             seq == seqs[c]
             st1 == IF c \in failing THEN st
                    ELSE PutSeqFile(st, seq,
                             Seq_resize(SeqFile(st, seq), seq.block_size,
                                        size, 0))
         IN  ResizeAll(st1, seqs, todo \ {c}, size, failing)

\* Conn::size_set: the resize tasks are joined and their results dropped,
\* then feed_map and feed.list take the new size; returns the old size
size_set(st, feed_name, size, failing) ==
    IF feed_name \notin DOMAIN st.seq_mapping
    THEN [st |-> st, res |-> "Panic", old_size |-> 0]
    ELSE LET seqs == st.seq_mapping[feed_name]
             st1  == ResizeAll(st, seqs, DOMAIN seqs, size, failing)
         IN  IF feed_name \notin DOMAIN st1.feed_map
             THEN [st |-> st1, res |-> "Panic", old_size |-> 0]
             ELSE LET old_size  == st1.feed_map[feed_name].size
                      st2       == [st1 EXCEPT
                                       !.feed_map[feed_name].size = size]
                      feed_item == st2.feed_map[feed_name]
                      m         == List_modify(FeedList(st2), feed_name,
                                               feed_item, ZeroFeedItem)
                  IN  IF m.res # "Ok"
                      THEN [st |-> st2, res |-> m.res, old_size |-> old_size]
                      ELSE [st |-> PutFeedList(st2, m), res |-> "Ok",
                            old_size |-> old_size]

(***************************************************************************)
(* Dataset (dataset.rs): a map from column names to series of Dataunit.    *)
(***************************************************************************)
SeriesLens(ds) == {Len(ds[c]) : c \in DOMAIN ds}

\* get_dataset_size without the comparison of the lengths
get_dataset_size_unchecked(ds) ==
    IF DOMAIN ds = {} THEN [res |-> "Ok", size |-> 0]
    ELSE [res |-> "Ok", size |-> CHOOSE n \in SeriesLens(ds) : TRUE]

\* get_dataset_size: the length of the first series, InvalidData when another
\* series has a different length, 0 for the empty map
get_dataset_size(ds) ==
    IF Cardinality(SeriesLens(ds)) > 1 THEN [res |-> "InvalidData", size |-> 0]
    ELSE IF DOMAIN ds = {} THEN [res |-> "Ok", size |-> 0]
    ELSE [res |-> "Ok", size |-> CHOOSE n \in SeriesLens(ds) : TRUE]

RECURSIVE Concat(_)
Concat(blocks) ==
    IF blocks = << >> THEN << >> ELSE Head(blocks) \o Concat(Tail(blocks))

\* the block of _data_update with nothing for a column the dataset lacks
Block_absent_skipped(ds, col_name, datatype, size) ==
    IF col_name \in DOMAIN ds
    THEN Concat([i \in 1..Len(ds[col_name]) |->
                    Datatype_to_bytes(datatype, ds[col_name][i]).block])
    ELSE << >>

\* the block _data_update writes to a column: the encoded series, or zeros
\* for a column the dataset does not hold
Block(ds, col_name, datatype, size) ==
    IF col_name \in DOMAIN ds
    THEN Concat([i \in 1..Len(ds[col_name]) |->
                    Datatype_to_bytes(datatype, ds[col_name][i]).block])
    ELSE Zeros(size * Datatype_size(datatype), 0)

\* a column at which the loop of _data_update panics: the feed or the column
\* is not in the maps, or a unit does not encode (to_bytes(..).unwrap())
BadCol(st, feed_name, ds, col_name) ==
    \/ feed_name \notin DOMAIN st.col_map_mapping
    \/ col_name \notin DOMAIN st.col_map_mapping[feed_name]
    \/ /\ col_name \in DOMAIN ds
       /\ \E i \in 1..Len(ds[col_name]) :
             ~Datatype_to_bytes(st.col_map_mapping[feed_name][col_name].datatype,
                                ds[col_name][i]).some
    \/ feed_name \notin DOMAIN st.seq_mapping
    \/ col_name \notin DOMAIN st.seq_mapping[feed_name]

\* the update tasks of _data_update for the columns of `todo`
RECURSIVE UpdateAll(_, _, _, _, _, _)
UpdateAll(st, feed_name, ix, ds, size, todo) ==
    IF todo = {} THEN st
    ELSE LET c   == CHOOSE x \in todo : TRUE
             seq == st.seq_mapping[feed_name][c]
             blk == Block(ds, c, st.col_map_mapping[feed_name][c].datatype,
                          size)
             st1 == PutSeqFile(st, seq,
                        Seq_update(SeqFile(st, seq), seq.block_size, ix,
                                   blk, 0))
         IN  UpdateAll(st1, feed_name, ix, ds, size, todo \ {c})

\* Conn::_data_update: one update task per column of cols, joined with the
\* results dropped.  When the loop panics at a column, the tasks spawned
\* before it for the columns `done` have written and the others are aborted
\* with the JoinSet (the loop order is that of a HashMap).
data_update(st, feed_name, ix, ds, cols, done) ==
    LET sz == get_dataset_size(ds)
    IN  IF sz.res # "Ok" THEN Ret(st, sz.res)
        ELSE IF sz.size = 0 THEN Ret(st, "Ok")
        ELSE LET bad == {c \in cols : BadCol(st, feed_name, ds, c)}
             IN  IF bad = {}
                 THEN Ret(UpdateAll(st, feed_name, ix, ds, sz.size, cols),
                          "Ok")
                 ELSE Ret(UpdateAll(st, feed_name, ix, ds, sz.size,
                                    done \cap (cols \ bad)),
                          "Panic")

\* Conn::data_save: every column of the feed
data_save(st, feed_name, ix, ds, done) ==
    IF feed_name \notin DOMAIN st.col_map_mapping THEN Ret(st, "Panic")
    ELSE data_update(st, feed_name, ix, ds,
                     DOMAIN st.col_map_mapping[feed_name], done)

\* Conn::data_patch: the columns of the dataset
data_patch(st, feed_name, ix, ds, done) ==
    data_update(st, feed_name, ix, ds, DOMAIN ds, done)

\* Conn::data_push: size_set to the old size plus the dataset size, then
\* data_patch at the old size
data_push(st, feed_name, ds, failing, done) ==
    LET sz == get_dataset_size(ds)
    IN  IF sz.res # "Ok" THEN Ret(st, sz.res)
        ELSE IF sz.size = 0 THEN Ret(st, "Ok")
        ELSE IF feed_name \notin DOMAIN st.feed_map THEN Ret(st, "Panic")
        ELSE LET ix == st.feed_map[feed_name].size
                 s  == size_set(st, feed_name, ix + sz.size, failing)
             IN  IF s.res # "Ok" THEN Ret(s.st, s.res)
                 ELSE data_patch(s.st, feed_name, ix, ds, done)

\* Conn::raw_set
raw_set(st, feed_name, col_name, ix, block) ==
    IF \/ feed_name \notin DOMAIN st.seq_mapping
       \/ col_name \notin DOMAIN st.seq_mapping[feed_name]
    THEN Ret(st, "Panic")
    ELSE LET seq == st.seq_mapping[feed_name][col_name]
         IN  Ret(PutSeqFile(st, seq,
                     Seq_update(SeqFile(st, seq), seq.block_size, ix,
                                block, 0)),
                 "Ok")

\* Conn::raw_get: the maps are indexed, then Seq::get reads size units
raw_get(st, feed_name, col_name, ix, size) ==
    IF \/ feed_name \notin DOMAIN st.seq_mapping
       \/ col_name \notin DOMAIN st.seq_mapping[feed_name]
       \/ feed_name \notin DOMAIN st.col_map_mapping
       \/ col_name \notin DOMAIN st.col_map_mapping[feed_name]
    THEN [res |-> "Panic", block |-> << >>]
    ELSE LET seq == st.seq_mapping[feed_name][col_name]
             n   == size * Datatype_size(
                               st.col_map_mapping[feed_name][col_name].datatype)
         IN  IF ~Seq_get_ok(SeqFile(st, seq), seq.block_size, ix, n)
             THEN [res |-> "UnexpectedEof", block |-> << >>]
             ELSE [res |-> "Ok",
                   block |-> Seq_get(SeqFile(st, seq), seq.block_size, ix, n)]

\* Conn::data_get: one read task per column; a read past the end panics in
\* the task (get(..).unwrap()) and the JoinError comes back as an error of
\* kind Other.  Without a column the maps are not indexed.
data_get(st, feed_name, ix, size, cols) ==
    IF cols = {} THEN [res |-> "Ok", ds |-> EmptyMap]
    ELSE IF
       \/ feed_name \notin DOMAIN st.col_map_mapping
       \/ feed_name \notin DOMAIN st.seq_mapping
       \/ \E c \in cols : \/ c \notin DOMAIN st.col_map_mapping[feed_name]
                          \/ c \notin DOMAIN st.seq_mapping[feed_name]
    THEN [res |-> "Panic", ds |-> EmptyMap]
    ELSE LET dt(c)  == st.col_map_mapping[feed_name][c].datatype
             seq(c) == st.seq_mapping[feed_name][c]
             n(c)   == size * Datatype_size(dt(c))
         IN  IF \E c \in cols :
                    ~Seq_get_ok(SeqFile(st, seq(c)), seq(c).block_size, ix, n(c))
             THEN [res |-> "Other", ds |-> EmptyMap]
             ELSE IF \E c \in cols : Datatype_size(dt(c)) = 0
             THEN [res |-> "Panic", ds |-> EmptyMap]
             ELSE [res |-> "Ok",
                   ds |-> [c \in cols |->
                             LET block == Seq_get(SeqFile(st, seq(c)),
                                                  seq(c).block_size, ix, n(c))
                                 w     == Datatype_size(dt(c))
                             IN  [i \in 1..size |->
                                    Datatype_from_bytes(dt(c),
                                        SubSeq(block, (i - 1) * w + 1, i * w))]]]

\* the loop of Conn::new over the feeds of feed.list
RECURSIVE OpenFeeds(_, _, _)
OpenFeeds(st, fmap, todo) ==
    IF todo = {} THEN Ret(st, "Ok")
    ELSE LET f == CHOOSE x \in todo : TRUE
             r == feed_open(st, f, fmap[f])
         IN  IF r.res # "Ok" THEN r
             ELSE OpenFeeds(r.st, fmap, todo \ {f})

\* Conn::new on the directory of st: the List over feed.list, empty maps,
\* then _feed_open for every feed of the catalog
Conn_new(st) ==
    LET l    == List_new(st.fs_feed_list)
        st0  == [st EXCEPT !.feed_list = l.ixmap,
                           !.feed_map = EmptyMap,
                           !.col_list_mapping = EmptyMap,
                           !.col_map_mapping = EmptyMap,
                           !.seq_mapping = EmptyMap]
        fmap == List_map(l.col)
    IN  OpenFeeds(st0, fmap, DOMAIN fmap)

(***************************************************************************)
(* The state after Conn::new on an empty directory (conn.rs).              *)
(***************************************************************************)
NoCall == [op |-> "none", res |-> "Ok", all_ok |-> TRUE, n |-> 0]

Init ==
    /\ fs_feed_list = << >>
    /\ fs_dirs = EmptyMap
    /\ feed_list = EmptyMap
    /\ feed_map = EmptyMap
    /\ col_list_mapping = EmptyMap
    /\ col_map_mapping = EmptyMap
    /\ seq_mapping = EmptyMap
    /\ last = NoCall
    /\ tasks = EmptyMap

(***************************************************************************)
(* Spec: one task calling the public methods of Conn one after another.    *)
(* `last` records the method called last, its result and whether every     *)
(* call so far has returned Ok.                                            *)
(***************************************************************************)
Feeds == {"f", "g"}

Cols == {"x", "y"}

Datatypes == {"Int64", "Int32"}

\* the feed sizes a call may ask for and the rows a write may reach
MaxSize == 1

\* the longest series of a dataset
MaxSeries == 1

\* the columns the feeds may hold together
MaxCols == 2

\* I(2^32 + 1) and F(1.0) as their bytes
Unit_I == [tag |-> "I", v |-> <<1, 0, 0, 0, 1, 0, 0, 0>>]

Unit_F == [tag |-> "F", v |-> <<0, 0, 0, 0, 0, 0, 240, 63>>]

Units == {Unit_I, Unit_F}

RECURSIVE SeqsUpTo(_, _)
SeqsUpTo(S, n) ==
    IF n = 0 THEN {<< >>}
    ELSE SeqsUpTo(S, n - 1) \cup
         {Append(q, x) : q \in {q \in SeqsUpTo(S, n - 1) : Len(q) = n - 1},
                         x \in S}

Series == SeqsUpTo(Units, MaxSeries)

Datasets == UNION {[D -> Series] : D \in SUBSET Cols}

Apply(st) ==
    /\ fs_feed_list' = st.fs_feed_list
    /\ fs_dirs' = st.fs_dirs
    /\ feed_list' = st.feed_list
    /\ feed_map' = st.feed_map
    /\ col_list_mapping' = st.col_list_mapping
    /\ col_map_mapping' = st.col_map_mapping
    /\ seq_mapping' = st.seq_mapping

\* the calls one run of Spec makes
MaxCalls == 5

Called(op, res) ==
    last' = [op |-> op, res |-> res, all_ok |-> last.all_ok /\ res = "Ok",
             n |-> last.n + 1]

TotalCols ==
    Cardinality({<<f, c>> \in Feeds \X Cols :
                    f \in DOMAIN col_map_mapping
                    /\ c \in DOMAIN col_map_mapping[f]})

FeedAdd ==
    /\ last.n < MaxCalls
    /\ \E f \in Feeds :
        LET r == feed_add(St, f)
        IN  Apply(r.st) /\ Called("feed_add", r.res) /\ UNCHANGED tasks

FeedRemove ==
    /\ last.n < MaxCalls
    /\ \E f \in Feeds :
        LET r == feed_remove(St, f)
        IN  Apply(r.st) /\ Called("feed_remove", r.res) /\ UNCHANGED tasks

FeedRename ==
    /\ last.n < MaxCalls
    /\ \E f \in Feeds, g \in Feeds :
        LET r == feed_rename(St, f, g)
        IN  Apply(r.st) /\ Called("feed_rename", r.res) /\ UNCHANGED tasks

ColAdd ==
    /\ last.n < MaxCalls
    /\ TotalCols < MaxCols
    /\ \E f \in Feeds, c \in Cols, dt \in Datatypes :
        LET r == col_add(St, f, c, dt)
        IN  Apply(r.st) /\ Called("col_add", r.res) /\ UNCHANGED tasks

ColRemove ==
    /\ last.n < MaxCalls
    /\ \E f \in Feeds, c \in Cols :
        LET r == col_remove(St, f, c)
        IN  Apply(r.st) /\ Called("col_remove", r.res) /\ UNCHANGED tasks

ColRename ==
    /\ last.n < MaxCalls
    /\ \E f \in Feeds, c \in Cols, d \in Cols :
        LET r == col_rename(St, f, c, d)
        IN  Apply(r.st) /\ Called("col_rename", r.res) /\ UNCHANGED tasks

SizeSet ==
    /\ last.n < MaxCalls
    /\ \E f \in Feeds, size \in 0..MaxSize :
        LET r == size_set(St, f, size, {})
        IN  Apply(r.st) /\ Called("size_set", r.res) /\ UNCHANGED tasks

\* the rows [ix, ix + n) of a write stay within the rows the model follows:
\* a write may start at any row up to MaxSize, past the end of the feed too
InRows(ix, ds) == \A c \in DOMAIN ds : ix + Len(ds[c]) <= MaxSize + MaxSeries

\* a call that panics half way has written any part of its columns
DoneSets(res) == IF res = "Panic" THEN SUBSET Cols ELSE {{}}

DataPush ==
    /\ last.n < MaxCalls
    /\ \E f \in Feeds, ds \in Datasets :
        /\ InRows(IF f \in DOMAIN feed_map THEN feed_map[f].size ELSE 0, ds)
        /\ \E done \in DoneSets(data_push(St, f, ds, {}, {}).res) :
            LET r == data_push(St, f, ds, {}, done)
            IN  Apply(r.st) /\ Called("data_push", r.res) /\ UNCHANGED tasks

DataSave ==
    /\ last.n < MaxCalls
    /\ \E f \in Feeds, ix \in 0..MaxSize, ds \in Datasets :
        /\ InRows(ix, ds)
        /\ \E done \in DoneSets(data_save(St, f, ix, ds, {}).res) :
            LET r == data_save(St, f, ix, ds, done)
            IN  Apply(r.st) /\ Called("data_save", r.res) /\ UNCHANGED tasks

DataPatch ==
    /\ last.n < MaxCalls
    /\ \E f \in Feeds, ix \in 0..MaxSize, ds \in Datasets :
        /\ InRows(ix, ds)
        /\ \E done \in DoneSets(data_patch(St, f, ix, ds, {}).res) :
            LET r == data_patch(St, f, ix, ds, done)
            IN  Apply(r.st) /\ Called("data_patch", r.res) /\ UNCHANGED tasks

\* the blocks raw_set is called with: one encoded unit of the column
RawBlocks(st, f, c) ==
    IF f \in DOMAIN st.col_map_mapping /\ c \in DOMAIN st.col_map_mapping[f]
    THEN {Datatype_to_bytes(st.col_map_mapping[f][c].datatype, Unit_I).block}
    ELSE {<<1>>}

RawSet ==
    /\ last.n < MaxCalls
    /\ \E f \in Feeds, c \in Cols, ix \in 0..(MaxSize - 1) :
        \E block \in RawBlocks(St, f, c) :
            LET r == raw_set(St, f, c, ix, block)
            IN  Apply(r.st) /\ Called("raw_set", r.res) /\ UNCHANGED tasks

Next ==
    \/ FeedAdd \/ FeedRemove \/ FeedRename
    \/ ColAdd \/ ColRemove \/ ColRename
    \/ SizeSet \/ DataPush \/ DataSave \/ DataPatch \/ RawSet

Spec == Init /\ [][Next]_vars

(***************************************************************************)
(* SpecList: a List<FeedItem, String> on its own, driven by add, remove    *)
(* and modify.  The List is the pair (fs_feed_list, feed_list).            *)
(***************************************************************************)
ListKeys == {"a", "b", "c"}

MaxListLen == 3

MaxItemSize == 1

ListRecs == [name : ListKeys, size : 0..MaxItemSize]

TheList == [col |-> fs_feed_list, ixmap |-> feed_list]

ConnUnchanged ==
    UNCHANGED << fs_dirs, feed_map, col_list_mapping, col_map_mapping,
                 seq_mapping, tasks >>

ListAdd ==
    \E rec \in ListRecs :
        /\ Len(fs_feed_list) < MaxListLen
        /\ LET r == List_add(TheList, rec)
           IN  /\ fs_feed_list' = r.col
               /\ feed_list' = r.ixmap
               /\ last' = [op |-> "List_add", res |-> r.res,
                           all_ok |-> last.all_ok /\ r.res = "Ok", n |-> 0]
        /\ ConnUnchanged

ListRemove ==
    \E key \in ListKeys :
        /\ LET r == List_remove(TheList, key, ZeroFeedItem)
           IN  /\ fs_feed_list' = r.col
               /\ feed_list' = r.ixmap
               /\ last' = [op |-> "List_remove", res |-> r.res,
                           all_ok |-> last.all_ok /\ r.res = "Ok", n |-> 0]
        /\ ConnUnchanged

ListModify ==
    \E key \in ListKeys, rec \in ListRecs :
        /\ LET r == List_modify(TheList, key, rec, ZeroFeedItem)
           IN  /\ fs_feed_list' = r.col
               /\ feed_list' = r.ixmap
               /\ last' = [op |-> "List_modify", res |-> r.res,
                           all_ok |-> last.all_ok /\ r.res = "Ok", n |-> 0]
        /\ ConnUnchanged

NextList == ListAdd \/ ListRemove \/ ListModify

SpecList == Init /\ [][NextList]_vars

(***************************************************************************)
(* Claims about List.                                                      *)
(***************************************************************************)
\* map() and ixmap hold the same keys, and detail(k) is the record at
\* position ixmap[k], whose key is k
ListConsistent(l) ==
    /\ DOMAIN List_map(l.col) = DOMAIN l.ixmap
    /\ \A k \in DOMAIN l.ixmap :
          LET d == List_detail(l, k)
          IN  /\ d.res = "Ok"
              /\ d.rec = l.col[l.ixmap[k] + 1]
              /\ Key(d.rec) = k

\* C3: in every state of a List the key set of map() equals the key set of
\* ixmap, and for every key k of ixmap detail(k) returns the record stored at
\* position ixmap[k], whose key is k.
C3_IndexConsistent == ListConsistent(TheList)

\* C4: keys are unique at all times: no two records of the file have the same
\* key and no two keys of the index map to the same position.
C4_KeysUnique ==
    /\ \A i, j \in 1..Len(fs_feed_list) :
          i # j => Key(fs_feed_list[i]) # Key(fs_feed_list[j])
    /\ \A k1, k2 \in DOMAIN feed_list :
          k1 # k2 => feed_list[k1] # feed_list[k2]

\* C5: remove(k) of a present key that is not the tail moves the former tail
\* record R to k's former position, shrinks the list by one, removes k from
\* the index and makes R's key map to k's former position; when k is the tail
\* the list is only truncated by one.
C5_RemoveSwapsTail ==
    [][ \A k \in ListKeys :
          ( /\ last'.op = "List_remove" /\ last'.res = "Ok"
            /\ ListConsistent(TheList)
            /\ k \in DOMAIN feed_list
            /\ List_remove(TheList, k, ZeroFeedItem)
                  = [col |-> fs_feed_list', ixmap |-> feed_list', res |-> "Ok"] )
          => LET ix   == feed_list[k]
                 size == Len(fs_feed_list)
                 R    == fs_feed_list[size]
             IN  /\ Len(fs_feed_list') = size - 1
                 /\ k \notin DOMAIN feed_list'
                 /\ IF ix # size - 1
                    THEN /\ fs_feed_list'[ix + 1] = R
                         /\ Key(R) \in DOMAIN feed_list'
                         /\ feed_list'[Key(R)] = ix
                    ELSE /\ fs_feed_list' = SubSeq(fs_feed_list, 1, size - 1)
                         /\ feed_list' = MapRemove(feed_list, k)
      ]_vars


\* C27: add(r) with r.key() in the index returns AlreadyExists and leaves
\* the file and the index as they were; otherwise it returns Ok, r is the
\* new last record of the file and r.key() maps to its position, the size
\* the list had.
C27_AddAppends ==
    [][ \A rec \in ListRecs :
          ( /\ last'.op = "List_add"
            /\ List_add(TheList, rec)
                  = [col |-> fs_feed_list', ixmap |-> feed_list',
                     res |-> last'.res] )
          => IF List_exists(TheList, Key(rec))
             THEN /\ last'.res = "AlreadyExists"
                  /\ fs_feed_list' = fs_feed_list
                  /\ feed_list' = feed_list
             ELSE /\ last'.res = "Ok"
                  /\ fs_feed_list' = Append(fs_feed_list, rec)
                  /\ DOMAIN feed_list' = DOMAIN feed_list \cup {Key(rec)}
                  /\ feed_list'[Key(rec)] = Len(fs_feed_list)
                  /\ fs_feed_list'[feed_list'[Key(rec)] + 1] = rec
                  /\ \A k \in DOMAIN feed_list : feed_list'[k] = feed_list[k]
      ]_vars

\* a record has been appended to a list of two records
C27_Witness ==
    /\ last.op = "List_add" /\ last.res = "Ok"
    /\ Len(fs_feed_list) = 3
    /\ \E k \in DOMAIN feed_list :
          /\ feed_list[k] = 2
          /\ Key(fs_feed_list[3]) = k

\* C28: modify(k, r) with k not in the index returns NotFound and changes
\* nothing; with r.key() = k it writes r over the record of k; with another
\* key that is in the index it returns AlreadyExists and changes nothing;
\* otherwise it writes r over the record of k, r.key() takes the position k
\* had and k leaves the index.  Every other record and key keeps its place.
C28_ModifyInPlace ==
    [][ \A k \in ListKeys, rec \in ListRecs :
          ( /\ last'.op = "List_modify"
            /\ List_modify(TheList, k, rec, ZeroFeedItem)
                  = [col |-> fs_feed_list', ixmap |-> feed_list',
                     res |-> last'.res] )
          => IF k \notin DOMAIN feed_list
             THEN /\ last'.res = "NotFound"
                  /\ fs_feed_list' = fs_feed_list /\ feed_list' = feed_list
             ELSE IF Key(rec) # k /\ Key(rec) \in DOMAIN feed_list
             THEN /\ last'.res = "AlreadyExists"
                  /\ fs_feed_list' = fs_feed_list /\ feed_list' = feed_list
             ELSE LET ix == feed_list[k]
                  IN  /\ last'.res = "Ok"
                      /\ ix < Len(fs_feed_list)
                      /\ Key(fs_feed_list[ix + 1]) = k
                      /\ fs_feed_list' = [fs_feed_list EXCEPT ![ix + 1] = rec]
                      /\ feed_list' = MapInsert(MapRemove(feed_list, k),
                                                Key(rec), ix)
      ]_vars

(***************************************************************************)
(* Claims about the files and the sizes of the feeds, under Spec.          *)
(***************************************************************************)
\* the bytes of the column file of col_name in feed_name, -1 without a file
ColFileLen(st, feed_name, col_name) ==
    IF /\ feed_name \in DOMAIN st.fs_dirs
       /\ col_name \in DOMAIN st.fs_dirs[feed_name].seqs
    THEN Len(st.fs_dirs[feed_name].seqs[col_name])
    ELSE -1

\* the columns of a feed as the Conn sees them
ColsOf(st, feed_name) ==
    IF feed_name \in DOMAIN st.col_map_mapping
    THEN DOMAIN st.col_map_mapping[feed_name]
    ELSE {}

DtOf(st, feed_name, col_name) == st.col_map_mapping[feed_name][col_name].datatype

\* the rows [ix, ix + size) of one column as data_get returns them
Rows(st, feed_name, col_name, ix, size) ==
    LET r == data_get(st, feed_name, ix, size, {col_name})
    IN  IF r.res = "Ok" THEN r.ds[col_name] ELSE <<r.res>>

ZeroUnit(u) == u.v = <<0, 0, 0, 0, 0, 0, 0, 0>>

\* C1: after calls that all returned Ok, every column file of every feed
\* holds exactly size_get(F) * datatype(C).size() bytes.
C1_ColumnFileBytes ==
    last.all_ok =>
        \A f \in DOMAIN feed_map :
            \A c \in ColsOf(St, f) :
                ColFileLen(St, f, c)
                    = feed_map[f].size * Datatype_size(DtOf(St, f, c))

\* a dataset over columns of the feed whose units the columns can hold
WellFormed(st, feed_name, ds) ==
    /\ feed_name \in DOMAIN st.feed_map
    /\ DOMAIN ds \subseteq ColsOf(st, feed_name)
    /\ get_dataset_size(ds).res = "Ok"
    /\ \A c \in DOMAIN ds :
          \A i \in 1..Len(ds[c]) :
              LET b == Datatype_to_bytes(DtOf(st, feed_name, c), ds[c][i])
              IN  /\ b.some
                  /\ Datatype_from_bytes(DtOf(st, feed_name, c), b.block)
                        = ds[c][i]

\* what C2 promises of a push of ds to feed_name that took st to st2
PushPost(st, st2, feed_name, ds) ==
    LET S == st.feed_map[feed_name].size
        n == get_dataset_size(ds).size
    IN  /\ size_get(st2, feed_name) = [res |-> "Ok", size |-> S + n]
        /\ data_get(st2, feed_name, S, n, DOMAIN ds) = [res |-> "Ok", ds |-> ds]
        /\ \A c \in ColsOf(st, feed_name) :
              Rows(st2, feed_name, c, 0, S) = Rows(st, feed_name, c, 0, S)
        /\ \A c \in ColsOf(st, feed_name) \ DOMAIN ds :
              LET rows == Rows(st2, feed_name, c, S, n)
              IN  /\ Len(rows) = n
                  /\ \A i \in 1..n : rows[i] \in [tag : {"I", "F"}, v : Seq(0..255)]
                                     /\ ZeroUnit(rows[i])

\* C2: a data_push of a well-formed dataset of n > 0 rows that returns Ok,
\* after calls that all returned Ok, makes the size S + n, stores the rows
\* of ds at S.., keeps the rows below S and leaves zero in the other columns.
C2_PushPostcondition ==
    [][ \A f \in Feeds, ds \in Datasets :
          ( /\ last.all_ok
            /\ last'.op = "data_push" /\ last'.res = "Ok"
            /\ WellFormed(St, f, ds)
            /\ get_dataset_size(ds).size > 0
            /\ data_push(St, f, ds, {}, {}) = Ret(St', "Ok") )
          => PushPost(St, St', f, ds) ]_vars

\* a dataset with series of different lengths
Ragged(ds) == Cardinality(SeriesLens(ds)) > 1

\* C12: on a feed of the Conn, data_push, data_save and data_patch of a
\* ragged dataset return InvalidData and leave the feed size and every
\* column file as they were.
C12_RaggedRejected ==
    \A f \in DOMAIN feed_map, ds \in {d \in Datasets : Ragged(d)} :
        /\ data_push(St, f, ds, {}, {}) = Ret(St, "InvalidData")
        /\ \A ix \in 0..MaxSize :
              /\ data_save(St, f, ix, ds, {}) = Ret(St, "InvalidData")
              /\ data_patch(St, f, ix, ds, {}) = Ret(St, "InvalidData")

\* a ragged dataset has just been refused by a feed that holds rows
C12_Witness ==
    /\ last.op \in {"data_push", "data_save", "data_patch"}
    /\ last.res = "InvalidData"
    /\ \E f \in DOMAIN feed_map : feed_map[f].size > 0

\* row r of a file of rows of w bytes, << >> when the file has no such row
RowOf(file, w, r) ==
    IF (r + 1) * w <= Len(file) THEN SubSeq(file, r * w + 1, (r + 1) * w)
    ELSE << >>

\* the rows the model follows
RowIxs == 0..(MaxSize + MaxSeries)

\* the catalogs and the sizes: feed.list, every col.list and the maps
Catalogs(st) ==
    [feed_file |-> st.fs_feed_list, feed_list |-> st.feed_list,
     feed_map |-> st.feed_map, col_list_mapping |-> st.col_list_mapping,
     col_map_mapping |-> st.col_map_mapping, seq_mapping |-> st.seq_mapping,
     col_files |-> [g \in DOMAIN st.fs_dirs |-> st.fs_dirs[g].col_list]]

\* the column files of every feed but feed_name
OtherFeeds(st, feed_name) ==
    [g \in DOMAIN st.fs_dirs \ {feed_name} |-> st.fs_dirs[g]]

\* C13: a data_patch(f, ix, ds) that returns Ok changes only the rows
\* ix..ix+n-1 of the columns of ds: the other columns of f, every other row,
\* the other feeds, the feed size and the catalogs stay as they were.
C13_PatchFrame ==
    [][ \A f \in Feeds, ix \in 0..MaxSize, ds \in Datasets :
          ( /\ last'.op = "data_patch" /\ last'.res = "Ok"
            /\ f \in DOMAIN feed_map
            /\ data_patch(St, f, ix, ds, {}) = Ret(St', "Ok") )
          => LET n == get_dataset_size(ds).size
             IN  /\ Catalogs(St') = Catalogs(St)
                 /\ OtherFeeds(St', f) = OtherFeeds(St, f)
                 /\ \A c \in ColsOf(St, f) \ DOMAIN ds :
                       fs_dirs'[f].seqs[c] = fs_dirs[f].seqs[c]
                 /\ \A c \in DOMAIN ds \cap ColsOf(St, f), r \in RowIxs :
                       (r < ix \/ r >= ix + n) =>
                           RowOf(fs_dirs'[f].seqs[c],
                                 Datatype_size(DtOf(St, f, c)), r)
                             = RowOf(fs_dirs[f].seqs[c],
                                     Datatype_size(DtOf(St, f, c)), r) ]_vars

\* the bytes of a series encoded by a datatype, unit after unit
Encoded(datatype, series) ==
    Concat([i \in 1..Len(series) |-> Datatype_to_bytes(datatype, series[i]).block])

\* the bytes of the rows [ix, ix + n) of a file of rows of w bytes
RowsOf(file, w, ix, n) ==
    IF (ix + n) * w <= Len(file) THEN SubSeq(file, ix * w + 1, (ix + n) * w)
    ELSE <<"short">>

\* C14: a data_save(f, ix, ds) of n > 0 rows that returns Ok leaves, in
\* every column of f, the rows ix..ix+n-1 holding the encoded series of ds
\* for a column of ds and zero bytes for a column absent from ds.
C14_SaveWritesEveryColumn ==
    [][ \A f \in Feeds, ix \in 0..MaxSize, ds \in Datasets :
          ( /\ last'.op = "data_save" /\ last'.res = "Ok"
            /\ f \in DOMAIN feed_map
            /\ get_dataset_size(ds).size > 0
            /\ data_save(St, f, ix, ds, {}) = Ret(St', "Ok") )
          => LET n == get_dataset_size(ds).size
             IN  \A c \in ColsOf(St, f) :
                    LET dt == DtOf(St, f, c)
                    IN  RowsOf(fs_dirs'[f].seqs[c], Datatype_size(dt), ix, n)
                          = IF c \in DOMAIN ds THEN Encoded(dt, ds[c])
                            ELSE Zeros(n * Datatype_size(dt), 0) ]_vars

\* a data_save has just written a series to one column and zero to another
C14_Witness ==
    /\ last.op = "data_save" /\ last.res = "Ok"
    /\ \E f \in DOMAIN feed_map :
          \E c, d \in ColsOf(St, f) :
              /\ ColFileLen(St, f, c) > 0
              /\ \E i \in 1..ColFileLen(St, f, c) : fs_dirs[f].seqs[c][i] # 0
              /\ ColFileLen(St, f, d) > 0
              /\ \A i \in 1..ColFileLen(St, f, d) : fs_dirs[f].seqs[d][i] = 0

\* C15: data_save is idempotent: after a data_save(F, ix, ds) that returned
\* Ok, the same call again returns Ok and leaves every column file of F
\* (and the rest of the state) as the first call left it.
C15_SaveIdempotent ==
    [][ \A f \in Feeds, ix \in 0..MaxSize, ds \in Datasets :
          ( /\ last'.op = "data_save" /\ last'.res = "Ok"
            /\ f \in DOMAIN feed_map
            /\ data_save(St, f, ix, ds, {}) = Ret(St', "Ok") )
          => data_save(St', f, ix, ds, {}) = Ret(St', "Ok") ]_vars

\* a data_save has just written rows that a second data_save would rewrite
C15_Witness ==
    /\ last.op = "data_save" /\ last.res = "Ok"
    /\ \E f \in DOMAIN feed_map :
          \E c \in ColsOf(St, f) :
              \E i \in 1..ColFileLen(St, f, c) : fs_dirs[f].seqs[c][i] # 0

PersistedSize(st, feed_name) ==
    IF feed_name \in KeysOf(st.fs_feed_list)
    THEN List_map(st.fs_feed_list)[feed_name].size
    ELSE -1

\* what C9 promises of size_set(feed_name, s) that took st to st2
SizeSetPost(st, st2, feed_name, s, returned) ==
    LET old == st.feed_map[feed_name].size
        low == IF old < s THEN old ELSE s
    IN  /\ returned = old
        /\ size_get(st2, feed_name) = [res |-> "Ok", size |-> s]
        /\ PersistedSize(st2, feed_name) = s
        /\ \A c \in ColsOf(st, feed_name) :
              /\ ColFileLen(st2, feed_name, c)
                    = s * Datatype_size(DtOf(st, feed_name, c))
              /\ Rows(st2, feed_name, c, 0, low) = Rows(st, feed_name, c, 0, low)
              /\ old < s =>
                    LET rows == Rows(st2, feed_name, c, old, s - old)
                    IN  /\ Len(rows) = s - old
                        /\ \A i \in 1..(s - old) :
                              rows[i] \in [tag : {"I", "F"}, v : Seq(0..255)]
                              /\ ZeroUnit(rows[i])

\* C9: size_set(f, s) on an existing feed, after calls that all returned Ok,
\* returns the previous size, leaves every column with s rows, sets the
\* size in feed_map and in feed.list, keeps the rows below min(old, s) and
\* leaves zero in the rows [old, s).
C9_SizeSetPostcondition ==
    [][ \A f \in Feeds, s \in 0..MaxSize :
          ( /\ last.all_ok
            /\ last'.op = "size_set" /\ last'.res = "Ok"
            /\ f \in DOMAIN feed_map
            /\ size_set(St, f, s, {}).st = St'
            /\ size_set(St, f, s, {}).res = "Ok" )
          => SizeSetPost(St, St', f, s, size_set(St, f, s, {}).old_size) ]_vars


C40_FailedPushFrame ==
    [][ \A f \in Feeds, ds \in Datasets, done \in SUBSET Cols :
          ( /\ f \in DOMAIN feed_map
            /\ get_dataset_size(ds).res = "Ok"
            /\ get_dataset_size(ds).size > 0
            /\ \E c \in DOMAIN ds :
                  \/ c \notin ColsOf(St, f)
                  \/ \E i \in 1..Len(ds[c]) :
                        ~Datatype_to_bytes(DtOf(St, f, c), ds[c][i]).some
            /\ last'.op = "data_push" /\ last'.res # "Ok"
            /\ data_push(St, f, ds, {}, done) = Ret(St', last'.res) )
          => /\ size_get(St', f) = size_get(St, f)
             /\ PersistedSize(St', f) = PersistedSize(St, f)
             /\ fs_dirs'[f].seqs = fs_dirs[f].seqs ]_vars

\* the persisted col.list record of a column, <<>> without one
PersistedCol(st, feed_name, col_name) ==
    IF /\ feed_name \in DOMAIN st.fs_dirs
       /\ col_name \in KeysOf(st.fs_dirs[feed_name].col_list)
    THEN <<List_map(st.fs_dirs[feed_name].col_list)[col_name]>>
    ELSE <<>>

\* C19: a feed_remove(f) of a feed the Conn holds returns Ok, and then f is
\* not a feed of the Conn, feed.list has no record of f, the directory of f
\* is gone, and every other feed has the maps, the directory and the
\* feed.list record it had; a feed_remove(f) of a feed the Conn does not
\* hold returns NotFound and changes nothing.
C19_FeedRemoveFrame ==
    [][ \A f \in Feeds :
          ( /\ last'.op = "feed_remove"
            /\ feed_remove(St, f) = Ret(St', last'.res) )
          => IF f \in DOMAIN feed_map
             THEN /\ last'.res = "Ok"
                  /\ ~feed_exists(St', f)
                  /\ f \notin KeysOf(fs_feed_list')
                  /\ f \notin DOMAIN fs_dirs'
                  /\ \A g \in Feeds \ {f} :
                        /\ feed_exists(St', g) = feed_exists(St, g)
                        /\ size_get(St', g) = size_get(St, g)
                        /\ ColsOf(St', g) = ColsOf(St, g)
                        /\ PersistedSize(St', g) = PersistedSize(St, g)
                  /\ \A g \in DOMAIN feed_map \ {f} :
                        /\ col_map_mapping'[g] = col_map_mapping[g]
                        /\ g \in DOMAIN fs_dirs'
                        /\ fs_dirs'[g] = fs_dirs[g]
             ELSE /\ last'.res = "NotFound"
                  /\ St' = St ]_vars

\* C20: a col_remove(f, c) of a column the Conn holds returns Ok, and then c
\* is not a column of f, col.list has no record of c, the file of c is gone,
\* and the size of f and the record, the col.list record and the file of
\* every other column are as before; a col_remove of a feed or a column the
\* Conn does not hold returns NotFound and changes nothing.
C20_ColRemoveFrame ==
    [][ \A f \in Feeds, c \in Cols :
          ( /\ last'.op = "col_remove"
            /\ col_remove(St, f, c) = Ret(St', last'.res) )
          => IF f \in DOMAIN feed_map /\ c \in ColsOf(St, f)
             THEN /\ last'.res = "Ok"
                  /\ c \notin ColsOf(St', f)
                  /\ PersistedCol(St', f, c) = <<>>
                  /\ ColFileLen(St', f, c) = -1
                  /\ size_get(St', f) = size_get(St, f)
                  /\ \A k \in ColsOf(St, f) \ {c} :
                        /\ k \in ColsOf(St', f)
                        /\ col_map_mapping'[f][k] = col_map_mapping[f][k]
                        /\ PersistedCol(St', f, k) = PersistedCol(St, f, k)
                        /\ ColFileLen(St', f, k) = ColFileLen(St, f, k)
                        /\ fs_dirs'[f].seqs[k] = fs_dirs[f].seqs[k]
             ELSE /\ last'.res = "NotFound"
                  /\ St' = St ]_vars

(***************************************************************************)
(* SpecCat: one task calling the feed and column operations, size_set and  *)
(* data_push.  Conn::new on the directory of the reached state is what a   *)
(* second Conn sees.                                                       *)
(***************************************************************************)
NextCat ==
    \/ FeedAdd \/ FeedRemove \/ FeedRename
    \/ ColAdd \/ ColRemove \/ ColRename
    \/ SizeSet \/ DataPush

SpecCat == Init /\ [][NextCat]_vars

\* C6: after feed and column operations, size_set and data_push that all
\* returned Ok, Conn::new on the same directory succeeds and holds the same
\* feeds with the same sizes and the same columns with the same datatypes.
C6_ReopenSameView ==
    last.all_ok =>
        LET r == Conn_new(St)
        IN  /\ r.res = "Ok"
            /\ r.st.feed_map = feed_map
            /\ r.st.col_map_mapping = col_map_mapping

(***************************************************************************)
(* SpecCols: the operations of SpecCat on a Conn opened on a directory     *)
(* that holds the feed "f" with the columns x (Int64) and y (Int32).       *)
(***************************************************************************)
InitCols ==
    LET e  == [fs_feed_list |-> << >>, fs_dirs |-> EmptyMap,
               feed_list |-> EmptyMap, feed_map |-> EmptyMap,
               col_list_mapping |-> EmptyMap, col_map_mapping |-> EmptyMap,
               seq_mapping |-> EmptyMap]
        s1 == feed_add(e, "f").st
        s2 == col_add(s1, "f", "x", "Int64").st
        s3 == col_add(s2, "f", "y", "Int32").st
        s4 == Conn_new(s3).st
    IN  /\ fs_feed_list = s4.fs_feed_list
        /\ fs_dirs = s4.fs_dirs
        /\ feed_list = s4.feed_list
        /\ feed_map = s4.feed_map
        /\ col_list_mapping = s4.col_list_mapping
        /\ col_map_mapping = s4.col_map_mapping
        /\ seq_mapping = s4.seq_mapping
        /\ last = NoCall
        /\ tasks = EmptyMap

SpecCols == InitCols /\ [][NextCat]_vars

\* C17: after a feed_rename(f, g) that returns Ok the feed g has the size
\* and, in every column f had, the rows f had, and f is neither a feed of
\* the Conn nor a directory; after a col_rename(f, c, d) that returns Ok
\* the column d has the rows c had, the size and the other columns are as
\* before, and c is neither a column of the Conn nor a file.
C17_RenameKeepsData ==
    [][ /\ \A f \in Feeds, g \in Feeds :
              ( /\ last'.op = "feed_rename" /\ last'.res = "Ok"
                /\ f \in DOMAIN feed_map
                /\ feed_rename(St, f, g) = Ret(St', "Ok") )
              => LET S == feed_map[f].size
                 IN  /\ size_get(St', g) = [res |-> "Ok", size |-> S]
                     /\ \A c \in ColsOf(St, f) :
                           /\ c \in ColsOf(St', g)
                           /\ Rows(St', g, c, 0, S) = Rows(St, f, c, 0, S)
                     /\ ~feed_exists(St', f)
                     /\ f \notin DOMAIN fs_dirs'
        /\ \A f \in Feeds, c \in Cols, d \in Cols :
              ( /\ last'.op = "col_rename" /\ last'.res = "Ok"
                /\ f \in DOMAIN feed_map
                /\ col_rename(St, f, c, d) = Ret(St', "Ok") )
              => LET S == feed_map[f].size
                 IN  /\ size_get(St', f) = [res |-> "Ok", size |-> S]
                     /\ d \in ColsOf(St', f)
                     /\ Rows(St', f, d, 0, S) = Rows(St, f, c, 0, S)
                     /\ \A k \in ColsOf(St, f) \ {c} :
                           /\ k \in ColsOf(St', f)
                           /\ Rows(St', f, k, 0, S) = Rows(St, f, k, 0, S)
                     /\ c \notin ColsOf(St', f)
                     /\ ColFileLen(St', f, c) = -1 ]_vars

(***************************************************************************)
(* SpecQuery: feeds and columns are added, resized and written, and the    *)
(* queries col_exists, data_get and raw_get are called with any feed and   *)
(* column names, present or not.                                           *)
(***************************************************************************)
\* a query returns and leaves the Conn and the files as they are
Queried(op, res) ==
    /\ last' = [op |-> op, res |-> res, all_ok |-> last.all_ok,
                n |-> last.n + 1]
    /\ UNCHANGED << fs_feed_list, fs_dirs, feed_list, feed_map,
                    col_list_mapping, col_map_mapping, seq_mapping, tasks >>

ColExists ==
    /\ last.n < MaxCalls
    /\ \E f \in Feeds, c \in Cols :
          Queried("col_exists", col_exists_call(St, f, c))

DataGet ==
    /\ last.n < MaxCalls
    /\ \E f \in Feeds, ix \in 0..MaxSize, size \in 0..MaxSize,
          cols \in SUBSET Cols :
          Queried("data_get", data_get(St, f, ix, size, cols).res)

RawGet ==
    /\ last.n < MaxCalls
    /\ \E f \in Feeds, c \in Cols, ix \in 0..MaxSize, size \in 0..MaxSize :
          Queried("raw_get", raw_get(St, f, c, ix, size).res)

NextQuery ==
    \/ FeedAdd \/ ColAdd \/ SizeSet
    \/ DataPush \/ DataSave \/ DataPatch \/ RawSet
    \/ ColExists \/ DataGet \/ RawGet

SpecQuery == Init /\ [][NextQuery]_vars

\* C21: col_exists(f, c) returns a boolean for every feed name and column
\* name, and false when the Conn does not hold the feed f.
C21_ColExistsTotal ==
    [][ \A f \in Feeds, c \in Cols :
          ( /\ last'.op = "col_exists"
            /\ last'.res = col_exists_call(St, f, c) )
          => /\ last'.res \in {"true", "false"}
             /\ f \notin DOMAIN feed_map => last'.res = "false" ]_vars

\* C22: size_set, data_push, data_save, data_patch, data_get, raw_get and
\* raw_set called with a feed the Conn does not hold return NotFound and
\* change neither the Conn nor a file.
C22_AbsentFeedNotFound ==
    [][ \A f \in Feeds \ DOMAIN feed_map :
          /\ \A size \in 0..MaxSize :
                ( /\ last'.op = "size_set"
                  /\ size_set(St, f, size, {}).st = St'
                  /\ size_set(St, f, size, {}).res = last'.res )
                => last'.res = "NotFound" /\ St' = St
          /\ \A ds \in Datasets, done \in SUBSET Cols :
                ( /\ last'.op = "data_push"
                  /\ data_push(St, f, ds, {}, done) = Ret(St', last'.res) )
                => last'.res = "NotFound" /\ St' = St
          /\ \A ix \in 0..MaxSize, ds \in Datasets, done \in SUBSET Cols :
                /\ ( /\ last'.op = "data_save"
                     /\ data_save(St, f, ix, ds, done) = Ret(St', last'.res) )
                   => last'.res = "NotFound" /\ St' = St
                /\ ( /\ last'.op = "data_patch"
                     /\ data_patch(St, f, ix, ds, done) = Ret(St', last'.res) )
                   => last'.res = "NotFound" /\ St' = St
          /\ \A ix \in 0..MaxSize, size \in 0..MaxSize, cols \in SUBSET Cols :
                ( /\ last'.op = "data_get"
                  /\ data_get(St, f, ix, size, cols).res = last'.res )
                => last'.res = "NotFound" /\ St' = St
          /\ \A c \in Cols, ix \in 0..MaxSize, size \in 0..MaxSize :
                ( /\ last'.op = "raw_get"
                  /\ raw_get(St, f, c, ix, size).res = last'.res )
                => last'.res = "NotFound" /\ St' = St
          /\ \A c \in Cols, ix \in 0..MaxSize :
              \A block \in RawBlocks(St, f, c) :
                ( /\ last'.op = "raw_set"
                  /\ raw_set(St, f, c, ix, block) = Ret(St', last'.res) )
                => last'.res = "NotFound" /\ St' = St ]_vars

\* C23: data_get(f, ix, size, cols) on a feed the Conn holds returns
\* NotFound when cols has a name that is not a column of f.
C23_UnknownColumnNotFound ==
    [][ \A f \in DOMAIN feed_map, ix \in 0..MaxSize, size \in 0..MaxSize,
           cols \in SUBSET Cols :
          ( /\ last'.op = "data_get"
            /\ data_get(St, f, ix, size, cols).res = last'.res
            /\ cols \ ColsOf(St, f) # {} )
          => last'.res = "NotFound" ]_vars

\* C24: data_get(f, ix, size, cols) on columns of f, with a row of
\* ix..ix+size-1 past the end of the file of one of them, returns an error
\* of kind UnexpectedEof.
C24_PastEndUnexpectedEof ==
    [][ \A f \in DOMAIN feed_map, ix \in 0..MaxSize, size \in 1..MaxSize,
           cols \in SUBSET Cols :
          ( /\ last'.op = "data_get"
            /\ data_get(St, f, ix, size, cols).res = last'.res
            /\ cols \subseteq ColsOf(St, f)
            /\ \E c \in cols :
                  ColFileLen(St, f, c)
                      < (ix + size) * Datatype_size(DtOf(St, f, c)) )
          => last'.res = "UnexpectedEof" ]_vars

(***************************************************************************)
(* SpecNames: feeds and columns are added and renamed with names that the  *)
(* name pattern allows and names it does not, and columns are added with   *)
(* datatype strings that parse and strings that do not.                    *)
(***************************************************************************)
\* names the pattern rejects: a leading digit, a trailing dot
BadNames == {"1f", "x."}

DatatypeStrs == {"Int64", "Bytes[2]", "Bytes[0]", "Bytes[-1]", "Bytes[x]",
                 "Bool"}

\* the call that gave r is made, unless MaxCalls calls were made
Do(op, r) ==
    /\ last.n < MaxCalls
    /\ Apply(r.st) /\ Called(op, r.res) /\ UNCHANGED tasks

NextNames ==
    \/ \E f \in Feeds \cup BadNames : Do("feed_add", feed_add(St, f))
    \/ \E f \in Feeds, g \in Feeds \cup BadNames :
          Do("feed_rename", feed_rename(St, f, g))
    \/ \E f \in Feeds, c \in Cols \cup BadNames, dt \in DatatypeStrs :
          /\ \A g \in DOMAIN col_map_mapping :
                Cardinality(DOMAIN col_map_mapping[g]) < MaxCols
          /\ Do("col_add", col_add(St, f, c, dt))
    \/ \E f \in Feeds, c \in Cols, d \in Cols \cup BadNames :
          Do("col_rename", col_rename(St, f, c, d))

SpecNames == Init /\ [][NextNames]_vars

\* the names of the feeds and columns in the maps, the catalogs and the
\* directory tree
NamesIn(st) ==
    DOMAIN st.feed_map \cup DOMAIN st.feed_list \cup KeysOf(st.fs_feed_list)
    \cup DOMAIN st.fs_dirs \cup DOMAIN st.col_map_mapping
    \cup DOMAIN st.col_list_mapping \cup DOMAIN st.seq_mapping
    \cup UNION {DOMAIN st.col_map_mapping[f] : f \in DOMAIN st.col_map_mapping}
    \cup UNION {DOMAIN st.col_list_mapping[f] :
                   f \in DOMAIN st.col_list_mapping}
    \cup UNION {DOMAIN st.seq_mapping[f] : f \in DOMAIN st.seq_mapping}
    \cup UNION {KeysOf(st.fs_dirs[f].col_list) \cup DOMAIN st.fs_dirs[f].seqs :
                   f \in DOMAIN st.fs_dirs}

\* C25: feed_add, col_add, feed_rename and col_rename with a name that the
\* pattern does not allow return InvalidInput, and the name is then not the
\* name of a feed or a column in the maps, the catalogs or the directories.
C25_InvalidNameRejected ==
    [][ \A bad \in BadNames :
          /\ ( /\ last'.op = "feed_add"
               /\ feed_add(St, bad) = Ret(St', last'.res) )
             => last'.res = "InvalidInput" /\ bad \notin NamesIn(St')
          /\ \A f \in DOMAIN feed_map :
                /\ ( /\ last'.op = "feed_rename"
                     /\ feed_rename(St, f, bad) = Ret(St', last'.res) )
                   => last'.res = "InvalidInput" /\ bad \notin NamesIn(St')
                /\ \A dt \in DatatypeStrs :
                      ( /\ last'.op = "col_add"
                        /\ col_add(St, f, bad, dt) = Ret(St', last'.res) )
                      => last'.res = "InvalidInput" /\ bad \notin NamesIn(St')
                /\ \A c \in ColsOf(St, f) :
                      ( /\ last'.op = "col_rename"
                        /\ col_rename(St, f, c, bad) = Ret(St', last'.res) )
                      => last'.res = "InvalidInput"
                         /\ bad \notin NamesIn(St') ]_vars

\* C26: col_add(f, c, dt) on a feed the Conn holds, with an allowed name c
\* that is not a column of f and a datatype string that does not parse,
\* returns InvalidInput and leaves col.list, the maps and the files as they
\* were.
C26_BadDatatypeRejected ==
    [][ \A f \in DOMAIN feed_map, c \in Cols, dt \in DatatypeStrs :
          ( /\ last'.op = "col_add"
            /\ c \notin ColsOf(St, f)
            /\ ~Datatype_from_str(dt).ok
            /\ col_add(St, f, c, dt) = Ret(St', last'.res) )
          => last'.res = "InvalidInput" /\ St' = St ]_vars

\* C29: no column has a datatype whose elements have size zero: the parser
\* rejects the unknown tokens and Bytes[N] with N = 0, negative or not a
\* number.
C29_NoZeroSizeColumn ==
    \A f \in DOMAIN col_map_mapping :
       \A c \in DOMAIN col_map_mapping[f] :
          Datatype_size(col_map_mapping[f][c].datatype) > 0

(***************************************************************************)
(* SpecFault: feeds and columns are added and resized, and set_len may     *)
(* return an error for some columns of a size_set.                         *)
(***************************************************************************)
SizeSetFailing ==
    /\ last.n < MaxCalls
    /\ \E f \in DOMAIN seq_mapping, size \in 0..MaxSize :
        \E failing \in (SUBSET DOMAIN seq_mapping[f]) \ {{}} :
            LET r == size_set(St, f, size, failing)
            IN  Apply(r.st) /\ Called("size_set failing", r.res)
                /\ UNCHANGED tasks

\* Conn::_data_update when Seq::update returns an error for the columns of
\* `failing`: their files are left alone, the other tasks write, join_all
\* returns and its results are dropped
data_update_failing(st, feed_name, ix, ds, cols, failing) ==
    LET sz == get_dataset_size(ds)
    IN  IF sz.res # "Ok" THEN Ret(st, sz.res)
        ELSE IF sz.size = 0 THEN Ret(st, "Ok")
        ELSE IF \E c \in cols : BadCol(st, feed_name, ds, c)
        THEN Ret(st, "Panic")
        ELSE Ret(UpdateAll(st, feed_name, ix, ds, sz.size, cols \ failing),
                 "Ok")

\* the columns a data_save (all = TRUE) or a data_patch of ds writes
WrittenCols(st, feed_name, ds, all) ==
    IF all THEN ColsOf(st, feed_name) ELSE DOMAIN ds

\* a write of ds to feed_name that reaches its update tasks
Writes(st, feed_name, ds, all) ==
    /\ feed_name \in DOMAIN st.feed_map
    /\ get_dataset_size(ds).res = "Ok"
    /\ get_dataset_size(ds).size > 0
    /\ WrittenCols(st, feed_name, ds, all) # {}
    /\ \A c \in WrittenCols(st, feed_name, ds, all) :
          ~BadCol(st, feed_name, ds, c)

DataSaveFailing ==
    /\ last.n < MaxCalls
    /\ \E f \in Feeds, ix \in 0..MaxSize, ds \in Datasets :
        /\ InRows(ix, ds) /\ Writes(St, f, ds, TRUE)
        /\ \E failing \in (SUBSET WrittenCols(St, f, ds, TRUE)) \ {{}} :
            LET r == data_update_failing(St, f, ix, ds,
                                         WrittenCols(St, f, ds, TRUE), failing)
            IN  Apply(r.st) /\ Called("data_save failing", r.res)
                /\ UNCHANGED tasks

DataPatchFailing ==
    /\ last.n < MaxCalls
    /\ \E f \in Feeds, ix \in 0..MaxSize, ds \in Datasets :
        /\ InRows(ix, ds) /\ Writes(St, f, ds, FALSE)
        /\ \E failing \in (SUBSET DOMAIN ds) \ {{}} :
            LET r == data_update_failing(St, f, ix, ds, DOMAIN ds, failing)
            IN  Apply(r.st) /\ Called("data_patch failing", r.res)
                /\ UNCHANGED tasks

\* data_push whose size_set succeeds and whose data_patch meets the errors
DataPushFailing ==
    /\ last.n < MaxCalls
    /\ \E f \in Feeds, ds \in Datasets :
        /\ Writes(St, f, ds, FALSE)
        /\ InRows(feed_map[f].size, ds)
        /\ \E failing \in (SUBSET DOMAIN ds) \ {{}} :
            LET ix == feed_map[f].size
                s  == size_set(St, f, ix + get_dataset_size(ds).size, {})
                r  == IF s.res # "Ok" THEN Ret(s.st, s.res)
                      ELSE data_update_failing(s.st, f, ix, ds, DOMAIN ds,
                                               failing)
            IN  Apply(r.st) /\ Called("data_push failing", r.res)
                /\ UNCHANGED tasks

NextFault ==
    \/ FeedAdd \/ ColAdd \/ SizeSet \/ SizeSetFailing
    \/ DataSaveFailing \/ DataPatchFailing \/ DataPushFailing

SpecFault == Init /\ [][NextFault]_vars

\* C10: a size_set during which the resize of some column fails returns an
\* error, leaves the size of the feed in feed_map and in feed.list as it
\* was, and leaves the columns whose resize succeeded with s rows.
C10_ResizeFailureReported ==
    [][ \A f \in Feeds, s \in 0..MaxSize, failing \in (SUBSET Cols) \ {{}} :
          ( /\ last'.op = "size_set failing"
            /\ f \in DOMAIN seq_mapping
            /\ failing \subseteq DOMAIN seq_mapping[f]
            /\ size_set(St, f, s, failing).st = St'
            /\ size_set(St, f, s, failing).res = last'.res )
          => /\ last'.res # "Ok"
             /\ feed_map'[f].size = feed_map[f].size
             /\ PersistedSize(St', f) = PersistedSize(St, f)
             /\ \A c \in ColsOf(St, f) \ failing :
                   ColFileLen(St', f, c) = s * Datatype_size(DtOf(St, f, c)) ]_vars

\* C11: a data_save, data_patch or data_push during which the update of
\* some column fails never returns Ok.
C11_WriteFailureReported ==
    [][ last'.op \in {"data_save failing", "data_patch failing",
                      "data_push failing"}
          => last'.res # "Ok" ]_vars

(***************************************************************************)
(* SpecConc: tasks sharing one Conn.  A task runs one method at a time and *)
(* a step of a task is what it does between two awaits on the locks of     *)
(* the Conn (conn.rs).  The Conn is opened on a directory holding the feed *)
(* "f" with the Int64 column "x"; the tasks call feed_add, feed_remove and *)
(* data_push on that feed.  A panic ends the task.                         *)
(***************************************************************************)
Tasks == {1, 2}

\* the calls one task makes
MaxTaskCalls == 1

TheFeed == "f"

TheCol == "x"

\* the dataset task t pushes: one row of column x holding I(t)
PushDs(t) == [c \in {TheCol} |-> <<[tag |-> "I", v |-> <<t, 0, 0, 0, 0, 0, 0, 0>>]>>]

EmptySt ==
    [fs_feed_list |-> << >>, fs_dirs |-> EmptyMap, feed_list |-> EmptyMap,
     feed_map |-> EmptyMap, col_list_mapping |-> EmptyMap,
     col_map_mapping |-> EmptyMap, seq_mapping |-> EmptyMap]

\* the locals of a task: its position, the row and the handles it has read,
\* the block it has encoded, the col.list it has opened, the columns left
\* to visit, the column at hand and the results of its finished calls
IdleTask ==
    [pc |-> "idle", ix |-> 0, seqs |-> EmptyMap, block |-> << >>,
     col_list |-> EmptyMap, col_map |-> EmptyMap, todo |-> {}, col |-> "",
     hist |-> << >>]

InitConc ==
    LET s1 == feed_add(EmptySt, TheFeed).st
        s2 == col_add(s1, TheFeed, TheCol, "Int64").st
        s3 == Conn_new(s2).st
    IN  /\ fs_feed_list = s3.fs_feed_list
        /\ fs_dirs = s3.fs_dirs
        /\ feed_list = s3.feed_list
        /\ feed_map = s3.feed_map
        /\ col_list_mapping = s3.col_list_mapping
        /\ col_map_mapping = s3.col_map_mapping
        /\ seq_mapping = s3.seq_mapping
        /\ last = NoCall
        /\ tasks = [t \in Tasks |-> IdleTask]

\* task t moves on with the locals changed to loc
Goto(t, loc) == tasks' = [tasks EXCEPT ![t] = loc] /\ UNCHANGED last

\* the call of task t returns res (or panics)
Finish(t, op, res) ==
    Goto(t, [IdleTask EXCEPT
                !.hist = Append(tasks[t].hist, [op |-> op, res |-> res])])

At(t, pc) == tasks[t].pc = pc

\* a write through a Seq handle reaches the file while the file is there
WriteSeqFile(st, h, data) ==
    IF h.feed \in DOMAIN st.fs_dirs /\ h.col \in DOMAIN st.fs_dirs[h.feed].seqs
    THEN PutSeqFile(st, h, data)
    ELSE st

ReadSeqFile(st, h) ==
    IF h.feed \in DOMAIN st.fs_dirs /\ h.col \in DOMAIN st.fs_dirs[h.feed].seqs
    THEN SeqFile(st, h)
    ELSE << >>

CallDataPush ==
    \E t \in Tasks :
        /\ At(t, "idle") /\ Len(tasks[t].hist) < MaxTaskCalls
        /\ Goto(t, [tasks[t] EXCEPT !.pc = "push_ix"])
        /\ Apply(St)

\* data_push: ix = feed_map[feed_name].size
PushReadIx ==
    \E t \in Tasks :
        /\ At(t, "push_ix")
        /\ Apply(St)
        /\ IF TheFeed \notin DOMAIN feed_map
           THEN Finish(t, "data_push", "Panic")
           ELSE Goto(t, [tasks[t] EXCEPT !.pc = "size_seqs",
                                         !.ix = feed_map[TheFeed].size])

\* size_set: the handles of seq_mapping[feed_name] go to the resize tasks
SizeSetSeqs ==
    \E t \in Tasks :
        /\ At(t, "size_seqs")
        /\ Apply(St)
        /\ IF TheFeed \notin DOMAIN seq_mapping
           THEN Finish(t, "data_push", "Panic")
           ELSE LET seqs == seq_mapping[TheFeed]
                IN  Goto(t, [tasks[t] EXCEPT
                                !.pc = IF DOMAIN seqs = {} THEN "size_record"
                                       ELSE "size_resize",
                                !.seqs = seqs, !.todo = DOMAIN seqs])

\* size_set: one resize task runs; join_all returns after the last one
SizeSetResize ==
    \E t \in Tasks :
        /\ At(t, "size_resize")
        /\ \E c \in tasks[t].todo :
            LET h    == tasks[t].seqs[c]
                size == tasks[t].ix + get_dataset_size(PushDs(t)).size
                data == Seq_resize(ReadSeqFile(St, h), h.block_size, size, 0)
                todo == tasks[t].todo \ {c}
            IN  /\ Apply(WriteSeqFile(St, h, data))
                /\ Goto(t, [tasks[t] EXCEPT
                               !.pc = IF todo = {} THEN "size_record"
                                      ELSE "size_resize",
                               !.todo = todo])

\* size_set: under the write lock of feed_map the size is set and feed.list
\* is modified; data_push goes on to data_patch
SizeSetRecord ==
    \E t \in Tasks :
        /\ At(t, "size_record")
        /\ IF TheFeed \notin DOMAIN feed_map
           THEN Apply(St) /\ Finish(t, "data_push", "Panic")
           ELSE LET size == tasks[t].ix + get_dataset_size(PushDs(t)).size
                    st2  == [St EXCEPT !.feed_map[TheFeed].size = size]
                    m    == List_modify(FeedList(st2), TheFeed,
                                        st2.feed_map[TheFeed], ZeroFeedItem)
                IN  IF m.res # "Ok"
                    THEN Apply(st2) /\ Finish(t, "data_push", m.res)
                    ELSE /\ Apply(PutFeedList(st2, m))
                         /\ Goto(t, [tasks[t] EXCEPT
                                        !.pc = "update_item",
                                        !.todo = DOMAIN PushDs(t),
                                        !.col = TheCol])

\* _data_update: the col item is read and the series encoded
UpdateItem ==
    \E t \in Tasks :
        /\ At(t, "update_item")
        /\ Apply(St)
        /\ LET c == tasks[t].col
           IN  IF \/ TheFeed \notin DOMAIN col_map_mapping
                  \/ c \notin DOMAIN col_map_mapping[TheFeed]
               THEN Finish(t, "data_push", "Panic")
               ELSE LET dt == col_map_mapping[TheFeed][c].datatype
                        b  == Datatype_to_bytes(dt, PushDs(t)[c][1])
                    IN  IF ~b.some THEN Finish(t, "data_push", "Panic")
                        ELSE Goto(t, [tasks[t] EXCEPT !.pc = "update_seq",
                                                      !.block = b.block])

\* _data_update: the handle of the column goes to the update task
UpdateSeq ==
    \E t \in Tasks :
        /\ At(t, "update_seq")
        /\ Apply(St)
        /\ LET c == tasks[t].col
           IN  IF \/ TheFeed \notin DOMAIN seq_mapping
                  \/ c \notin DOMAIN seq_mapping[TheFeed]
               THEN Finish(t, "data_push", "Panic")
               ELSE Goto(t, [tasks[t] EXCEPT
                                !.pc = "update_write",
                                !.seqs = [k \in {c} |-> seq_mapping[TheFeed][c]]])

\* _data_update: the update task writes the block at row ix; join_all
\* returns and data_push returns Ok
UpdateWrite ==
    \E t \in Tasks :
        /\ At(t, "update_write")
        /\ LET h    == tasks[t].seqs[tasks[t].col]
               data == Seq_update(ReadSeqFile(St, h), h.block_size,
                                  tasks[t].ix, tasks[t].block, 0)
           IN  Apply(WriteSeqFile(St, h, data))
        /\ Finish(t, "data_push", "Ok")

CallFeedRemove ==
    \E t \in Tasks :
        /\ At(t, "idle") /\ Len(tasks[t].hist) < MaxTaskCalls
        /\ Goto(t, [tasks[t] EXCEPT !.pc = "remove_check"])
        /\ Apply(St)

\* feed_remove: feed_exists
FeedRemoveCheck ==
    \E t \in Tasks :
        /\ At(t, "remove_check")
        /\ Apply(St)
        /\ IF ~feed_exists(St, TheFeed)
           THEN Finish(t, "feed_remove", "NotFound")
           ELSE Goto(t, [tasks[t] EXCEPT !.pc = "close_seq"])

\* _feed_close: seq_mapping.write().await.remove(feed_name)
FeedCloseSeq ==
    \E t \in Tasks :
        /\ At(t, "close_seq")
        /\ Apply([St EXCEPT !.seq_mapping = MapRemove(@, TheFeed)])
        /\ Goto(t, [tasks[t] EXCEPT !.pc = "close_col_list"])

\* _feed_close: col_list_mapping.write().await.remove(feed_name)
FeedCloseColList ==
    \E t \in Tasks :
        /\ At(t, "close_col_list")
        /\ Apply([St EXCEPT !.col_list_mapping = MapRemove(@, TheFeed)])
        /\ Goto(t, [tasks[t] EXCEPT !.pc = "close_col_map"])

\* _feed_close: col_map_mapping.write().await.remove(feed_name)
FeedCloseColMap ==
    \E t \in Tasks :
        /\ At(t, "close_col_map")
        /\ Apply([St EXCEPT !.col_map_mapping = MapRemove(@, TheFeed)])
        /\ Goto(t, [tasks[t] EXCEPT !.pc = "close_feed"])

\* _feed_close: feed_map.write().await.remove(feed_name).unwrap()
FeedCloseFeed ==
    \E t \in Tasks :
        /\ At(t, "close_feed")
        /\ IF TheFeed \notin DOMAIN feed_map
           THEN Apply(St) /\ Finish(t, "feed_remove", "Panic")
           ELSE /\ Apply([St EXCEPT !.feed_map = MapRemove(@, TheFeed)])
                /\ Goto(t, [tasks[t] EXCEPT !.pc = "remove_list"])

\* feed_remove: feed_list.write().await.remove(feed_name)
FeedRemoveList ==
    \E t \in Tasks :
        /\ At(t, "remove_list")
        /\ LET r == List_remove(FeedList(St), TheFeed, ZeroFeedItem)
           IN  IF r.res # "Ok"
               THEN Apply(St) /\ Finish(t, "feed_remove", r.res)
               ELSE /\ Apply(PutFeedList(St, r))
                    /\ Goto(t, [tasks[t] EXCEPT !.pc = "remove_dir"])

\* feed_remove: remove_dir_all
FeedRemoveDir ==
    \E t \in Tasks :
        /\ At(t, "remove_dir")
        /\ LET r == RemoveDirAll(St, TheFeed)
           IN  Apply(r.st) /\ Finish(t, "feed_remove", r.res)

CallFeedAdd ==
    \E t \in Tasks :
        /\ At(t, "idle") /\ Len(tasks[t].hist) < MaxTaskCalls
        /\ Goto(t, [tasks[t] EXCEPT !.pc = "add_check"])
        /\ Apply(St)

\* feed_add: feed_exists
FeedAddCheck ==
    \E t \in Tasks :
        /\ At(t, "add_check")
        /\ Apply(St)
        /\ IF feed_exists(St, TheFeed)
           THEN Finish(t, "feed_add", "AlreadyExists")
           ELSE Goto(t, [tasks[t] EXCEPT !.pc = "add_dir"])

\* feed_add: create_dir_all
FeedAddDir ==
    \E t \in Tasks :
        /\ At(t, "add_dir")
        /\ Apply(CreateDirAll(St, TheFeed))
        /\ Goto(t, [tasks[t] EXCEPT !.pc = "add_list"])

\* feed_add: feed_list.write().await.add(&feed_item)
FeedAddList ==
    \E t \in Tasks :
        /\ At(t, "add_list")
        /\ LET a == List_add(FeedList(St), FeedItem_new(TheFeed).item)
           IN  IF a.res # "Ok"
               THEN Apply(St) /\ Finish(t, "feed_add", a.res)
               ELSE /\ Apply(PutFeedList(St, a))
                    /\ Goto(t, [tasks[t] EXCEPT !.pc = "open_list"])

\* _feed_open: List::new on col.list and its map()
FeedOpenList ==
    \E t \in Tasks :
        /\ At(t, "open_list")
        /\ IF TheFeed \notin DOMAIN fs_dirs
           THEN Apply(St) /\ Finish(t, "feed_add", "NotFound")
           ELSE LET st1      == [St EXCEPT
                                    !.fs_dirs[TheFeed].has_col_list = TRUE]
                    col_list == List_new(st1.fs_dirs[TheFeed].col_list)
                IN  /\ Apply(st1)
                    /\ Goto(t, [tasks[t] EXCEPT
                                   !.pc = "open_col_map",
                                   !.col_list = col_list.ixmap,
                                   !.col_map = List_map(col_list.col)])

\* _feed_open: col_map_mapping.write().await.insert(feed_name, HashMap::new())
FeedOpenColMap ==
    \E t \in Tasks :
        /\ At(t, "open_col_map")
        /\ Apply([St EXCEPT
                     !.col_map_mapping = MapInsert(@, TheFeed, EmptyMap)])
        /\ Goto(t, [tasks[t] EXCEPT !.pc = "open_seq_map"])

\* the next column of the loop of _feed_open over col_map
NextCol(loc, todo) ==
    IF todo = {} THEN [loc EXCEPT !.pc = "open_feed", !.todo = {}]
    ELSE [loc EXCEPT !.pc = "col_open_seq", !.todo = todo,
                     !.col = CHOOSE c \in todo : TRUE]

\* _feed_open: seq_mapping.write().await.insert(feed_name, HashMap::new())
FeedOpenSeqMap ==
    \E t \in Tasks :
        /\ At(t, "open_seq_map")
        /\ Apply([St EXCEPT !.seq_mapping = MapInsert(@, TheFeed, EmptyMap)])
        /\ Goto(t, NextCol(tasks[t], DOMAIN tasks[t].col_map))

\* _col_open: Seq::new opens the column file and creates a missing one
ColOpenSeq ==
    \E t \in Tasks :
        /\ At(t, "col_open_seq")
        /\ LET c == tasks[t].col
           IN  IF TheFeed \notin DOMAIN fs_dirs
               THEN Apply(St) /\ Finish(t, "feed_add", "NotFound")
               ELSE /\ Apply(IF c \in DOMAIN fs_dirs[TheFeed].seqs THEN St
                             ELSE [St EXCEPT !.fs_dirs[TheFeed].seqs =
                                                 MapInsert(@, c, << >>)])
                    /\ Goto(t, [tasks[t] EXCEPT !.pc = "col_open_item"])

\* _col_open: col_map_mapping.write().await.get_mut(feed_name).unwrap()
\* .insert(col_name, col_item)
ColOpenItem ==
    \E t \in Tasks :
        /\ At(t, "col_open_item")
        /\ LET c == tasks[t].col
           IN  IF TheFeed \notin DOMAIN col_map_mapping
               THEN Apply(St) /\ Finish(t, "feed_add", "Panic")
               ELSE /\ Apply([St EXCEPT !.col_map_mapping[TheFeed] =
                                 MapInsert(@, c, tasks[t].col_map[c])])
                    /\ Goto(t, [tasks[t] EXCEPT !.pc = "col_open_handle"])

\* _col_open: seq_mapping.write().await.get_mut(feed_name).unwrap()
\* .insert(col_name, seq)
ColOpenHandle ==
    \E t \in Tasks :
        /\ At(t, "col_open_handle")
        /\ LET c   == tasks[t].col
               seq == [feed |-> TheFeed, col |-> c,
                       block_size |->
                           Datatype_size(tasks[t].col_map[c].datatype)]
           IN  IF TheFeed \notin DOMAIN seq_mapping
               THEN Apply(St) /\ Finish(t, "feed_add", "Panic")
               ELSE /\ Apply([St EXCEPT !.seq_mapping[TheFeed] =
                                 MapInsert(@, c, seq)])
                    /\ Goto(t, NextCol(tasks[t], tasks[t].todo \ {c}))

\* _feed_open: feed_map.write().await.insert(feed_name, feed_item)
FeedOpenFeed ==
    \E t \in Tasks :
        /\ At(t, "open_feed")
        /\ Apply([St EXCEPT
                     !.feed_map = MapInsert(@, TheFeed, FeedItem_new(TheFeed).item)])
        /\ Goto(t, [tasks[t] EXCEPT !.pc = "open_col_list"])

\* _feed_open: col_list_mapping.write().await.insert(feed_name, col_list)
FeedOpenColList ==
    \E t \in Tasks :
        /\ At(t, "open_col_list")
        /\ Apply([St EXCEPT !.col_list_mapping =
                     MapInsert(@, TheFeed, tasks[t].col_list)])
        /\ Finish(t, "feed_add", "Ok")

NextConc ==
    \/ CallDataPush \/ PushReadIx \/ SizeSetSeqs \/ SizeSetResize
    \/ SizeSetRecord \/ UpdateItem \/ UpdateSeq \/ UpdateWrite
    \/ CallFeedRemove \/ FeedRemoveCheck \/ FeedCloseSeq \/ FeedCloseColList
    \/ FeedCloseColMap \/ FeedCloseFeed \/ FeedRemoveList \/ FeedRemoveDir
    \/ CallFeedAdd \/ FeedAddCheck \/ FeedAddDir \/ FeedAddList
    \/ FeedOpenList \/ FeedOpenColMap \/ FeedOpenSeqMap
    \/ ColOpenSeq \/ ColOpenItem \/ ColOpenHandle
    \/ FeedOpenFeed \/ FeedOpenColList

SpecConc == InitConc /\ [][NextConc]_vars

\* C7: in every state a task can observe, feed_map holds a feed exactly
\* when col_list_mapping, col_map_mapping and seq_mapping all hold it.
C7_FeedMapsAgree ==
    \A f \in Feeds :
        (f \in DOMAIN feed_map)
            <=> ( /\ f \in DOMAIN col_list_mapping
                  /\ f \in DOMAIN col_map_mapping
                  /\ f \in DOMAIN seq_mapping )

PushedOk(t) ==
    /\ tasks[t].pc = "idle"
    /\ tasks[t].hist = <<[op |-> "data_push", res |-> "Ok"]>>

\* C8: when the two tasks have each pushed one row to the feed of size 0
\* and both calls returned Ok, the feed has two rows and column x holds
\* the two pushed rows, one at row 0 and the other at row 1.
C8_ConcurrentPushes ==
    (\A t \in Tasks : PushedOk(t)) =>
        /\ size_get(St, TheFeed) = [res |-> "Ok", size |-> 2]
        /\ LET r == data_get(St, TheFeed, 0, 2, {TheCol})
           IN  /\ r.res = "Ok"
               /\ r.ds[TheCol] \in {<<PushDs(1)[TheCol][1], PushDs(2)[TheCol][1]>>,
                                    <<PushDs(2)[TheCol][1], PushDs(1)[TheCol][1]>>}

\* C33: _feed_open populates feed_map last: in the step that inserts a feed
\* into feed_map, col_map_mapping, seq_mapping and col_list_mapping already
\* hold the feed, so a task that sees feed_exists(f) finds every per-feed
\* entry of f.
C33_FeedMapLast ==
    [][\A f \in Feeds :
          (f \notin DOMAIN feed_map /\ f \in DOMAIN feed_map')
          => /\ f \in DOMAIN col_map_mapping'
             /\ f \in DOMAIN seq_mapping'
             /\ f \in DOMAIN col_list_mapping']_vars

\* C38: when both tasks have called feed_remove on the feed the Conn holds
\* and both calls are over, one call returned Ok and the other NotFound
\* (neither panicked), and the feed is in no map and not in feed.list.
C38_ConcurrentFeedRemove ==
    (\A t \in Tasks :
        /\ tasks[t].pc = "idle"
        /\ Len(tasks[t].hist) = 1
        /\ tasks[t].hist[1].op = "feed_remove")
    => /\ \E t \in Tasks :
            /\ tasks[t].hist[1].res = "Ok"
            /\ \A u \in Tasks \ {t} : tasks[u].hist[1].res = "NotFound"
       /\ TheFeed \notin DOMAIN feed_map
       /\ TheFeed \notin DOMAIN col_list_mapping
       /\ TheFeed \notin DOMAIN col_map_mapping
       /\ TheFeed \notin DOMAIN seq_mapping
       /\ TheFeed \notin DOMAIN feed_list
       /\ TheFeed \notin KeysOf(fs_feed_list)

(***************************************************************************)
(* SpecLock: the locks of the Conn.  Tasks call the methods that lock a    *)
(* Seq on the feed "f" with the columns "x" and "y"; a method is the       *)
(* sequence of its lock instructions, in the order of its awaits and of    *)
(* the drops of its guards: a guard bound by `let r = &lock.read().await   *)
(* [..]` or made in the head of a `for` lives to the end of the block, any *)
(* other guard to the end of its statement.  A RwLock of a map is named by *)
(* its field, the Mutex of a Seq by its column.                            *)
(***************************************************************************)
LockTasks == {1, 2}

\* the calls one task makes
MaxLockCalls == 1

\* a method over both columns with the locks of a Seq taken before the maps
LockProgSeqFirst(method, c) ==
    << [i |-> "acq", l |-> c, m |-> "mutex"],
       [i |-> "acq", l |-> "seq_mapping", m |-> "read"],
       [i |-> "rel", l |-> "seq_mapping", m |-> ""],
       [i |-> "rel", l |-> c, m |-> ""] >>

\* the lock instructions of a method called on column c (size_set,
\* data_patch and data_get visit the columns x and y), and those of the
\* task a JoinSet spawns for the Seq of column c
LockProg(method, c) ==
    LET R(l) == [i |-> "acq", l |-> l, m |-> "read"]
        W(l) == [i |-> "acq", l |-> l, m |-> "write"]
        M(k) == [i |-> "acq", l |-> k, m |-> "mutex"]
        D(l) == [i |-> "rel", l |-> l, m |-> ""]
        S(k) == [i |-> "spawn", l |-> k, m |-> ""]
        J    == [i |-> "join", l |-> "", m |-> ""]
        \* one turn of the loop of _data_update
        U(k) == << R("col_map_mapping"), R("seq_mapping"), S(k),
                   D("seq_mapping"), D("col_map_mapping") >>
        \* one turn of the loop of data_get
        G(k) == << R("col_map_mapping"), D("col_map_mapping"),
                   R("seq_mapping"), S(k), D("seq_mapping") >>
    IN  CASE method = "seq_task" -> << M(c), D(c) >>
          [] method = "size_set" ->
                << R("seq_mapping"), S("x"), S("y"), D("seq_mapping"), J,
                   W("feed_map"), W("feed_list"), D("feed_list"),
                   D("feed_map") >>
          [] method = "data_patch" -> U("x") \o U("y") \o << J >>
          [] method = "data_get" -> G("x") \o G("y") \o << J >>
          [] method = "raw_get" ->
                << R("seq_mapping"), R("col_map_mapping"), M(c), D(c),
                   D("col_map_mapping"), D("seq_mapping") >>
          [] method = "raw_set" ->
                << R("seq_mapping"), M(c), D(c), D("seq_mapping") >>
          [] method = "col_add" ->
                << R("feed_map"), D("feed_map"),
                   R("col_map_mapping"), D("col_map_mapping"),
                   W("col_list_mapping"), D("col_list_mapping"),
                   W("col_map_mapping"), D("col_map_mapping"),
                   W("seq_mapping"), D("seq_mapping"),
                   R("feed_map"), D("feed_map"),
                   R("seq_mapping"), M(c), D(c), D("seq_mapping") >>

\* tokio's RwLock and Mutex: a reader waits for a writer, a writer and a
\* Mutex wait for every holder
CanAcquire(id, ins) ==
    \A other \in DOMAIN tasks \ {id} :
       \A h \in tasks[other].held :
          h.l = ins.l => h.m = "read" /\ ins.m = "read"

InitLock ==
    LET s1 == feed_add(EmptySt, "f").st
        s2 == col_add(s1, "f", "x", "Int64").st
        s3 == col_add(s2, "f", "y", "Int32").st
        s4 == Conn_new(s3).st
    IN  /\ fs_feed_list = s4.fs_feed_list
        /\ fs_dirs = s4.fs_dirs
        /\ feed_list = s4.feed_list
        /\ feed_map = s4.feed_map
        /\ col_list_mapping = s4.col_list_mapping
        /\ col_map_mapping = s4.col_map_mapping
        /\ seq_mapping = s4.seq_mapping
        /\ last = NoCall
        /\ tasks = [id \in LockTasks \X ({"main"} \cup Cols) |->
                      [prog |-> << >>, pc |-> 1, held |-> {}, n |-> 0]]

\* task id executes its next instruction when ins is that instruction
LockStep(id, ins, loc) ==
    /\ tasks[id].pc <= Len(tasks[id].prog)
    /\ tasks[id].prog[tasks[id].pc] = ins
    /\ tasks' = [loc EXCEPT ![id].pc = @ + 1]
    /\ Apply(St) /\ UNCHANGED last

NextLock ==
    \* a task calls a method
    \/ \E t \in LockTasks, c \in Cols,
          method \in {"size_set", "data_patch", "data_get", "raw_get",
                      "raw_set", "col_add"} :
          /\ \A k \in {"main"} \cup Cols :
                tasks[<<t, k>>].pc > Len(tasks[<<t, k>>].prog)
          /\ tasks[<<t, "main">>].n < MaxLockCalls
          /\ tasks' = [tasks EXCEPT
                          ![<<t, "main">>] =
                              [prog |-> LockProg(method, c), pc |-> 1,
                               held |-> {}, n |-> @.n + 1]]
          /\ Apply(St) /\ UNCHANGED last
    \* .read().await, .write().await, .lock().await
    \/ \E id \in DOMAIN tasks, l \in {"feed_list", "feed_map",
                                      "col_list_mapping", "col_map_mapping",
                                      "seq_mapping"} \cup Cols,
          m \in {"read", "write", "mutex"} :
          LET ins == [i |-> "acq", l |-> l, m |-> m]
          IN  /\ CanAcquire(id, ins)
              /\ LockStep(id, ins,
                          [tasks EXCEPT ![id].held = @ \cup {[l |-> l, m |-> m]}])
    \* the drop of a guard
    \/ \E id \in DOMAIN tasks :
          \E h \in tasks[id].held :
             LockStep(id, [i |-> "rel", l |-> h.l, m |-> ""],
                      [tasks EXCEPT ![id].held = @ \ {h}])
    \* js.spawn: the task of the Seq of column c starts
    \/ \E t \in LockTasks, c \in Cols :
          LockStep(<<t, "main">>, [i |-> "spawn", l |-> c, m |-> ""],
                   [tasks EXCEPT
                       ![<<t, c>>] = [prog |-> LockProg("seq_task", c),
                                      pc |-> 1, held |-> {}, n |-> 0]])
    \* join_all, join_next: the spawned tasks have ended
    \/ \E t \in LockTasks :
          /\ \A c \in Cols : tasks[<<t, c>>].pc > Len(tasks[<<t, c>>].prog)
          /\ LockStep(<<t, "main">>, [i |-> "join", l |-> "", m |-> ""], tasks)

SpecLock == InitLock /\ [][NextLock]_vars

\* the RwLocks of the maps of the Conn
MapLocks ==
    {"feed_list", "feed_map", "col_list_mapping", "col_map_mapping",
     "seq_mapping"}

\* C30: no task that holds the lock of a Seq acquires or waits for the lock
\* of feed_list, feed_map, col_list_mapping, col_map_mapping or seq_mapping:
\* the locks of the maps are taken before the lock of a Seq.
C30_MapsBeforeSeq ==
    \A id \in DOMAIN tasks :
       (\E h \in tasks[id].held : h.m = "mutex")
       => ~( /\ tasks[id].pc <= Len(tasks[id].prog)
             /\ tasks[id].prog[tasks[id].pc].i = "acq"
             /\ tasks[id].prog[tasks[id].pc].l \in MapLocks )

\* a task holds the lock of a Seq while another task holds the read lock of
\* seq_mapping and is about to lock the same Seq
C30_Witness ==
    \E id \in DOMAIN tasks, other \in DOMAIN tasks :
       /\ id # other
       /\ \E h \in tasks[id].held : h.m = "mutex"
       /\ [l |-> "seq_mapping", m |-> "read"] \in tasks[other].held
       /\ tasks[other].pc <= Len(tasks[other].prog)
       /\ tasks[other].prog[tasks[other].pc].m = "mutex"
       /\ \E h \in tasks[id].held : h.l = tasks[other].prog[tasks[other].pc].l

(***************************************************************************)
(* SpecSteps: the methods of the Conn step by step, with the Seq handles   *)
(* told apart.  The Conn is opened on a directory holding the feed "f" of  *)
(* size 1 with the Int32 column "x".  A method is the sequence of its      *)
(* steps (conn.rs): one step is one statement that awaits a lock of the    *)
(* Conn or the file system.  A write guard of a map lives for one          *)
(* statement, so a statement under it is one step; the read guard of       *)
(* seq_mapping bound by `let seq = &self.seq_mapping.read().await[..][..]` *)
(* lives to the end of the method and keeps the writers of seq_mapping     *)
(* out.  A Seq handle is [feed, col, block_size, mx]: col is the name its  *)
(* open file has now ("" once the file is unlinked) and mx names its       *)
(* Mutex, made anew by every Seq::new.  feed_add and feed_remove are       *)
(* called while no other call runs (their races are those of SpecConc).    *)
(***************************************************************************)
StepTasks == {1, 2}

\* the calls one run of SpecSteps makes
MaxStepCalls == 2

NoSeq == [feed |-> "", col |-> "", block_size |-> 0, mx |-> <<0, "">>]

\* the locals of a task: the method and its arguments, its steps and its
\* position, its result, the number of its call, the handle, the size, the
\* row, the col item and the block at hand, the opened col.list, whether it
\* holds the read guard of seq_mapping and the Mutex it holds
IdleStep ==
    [op |-> "", arg |-> <<"", "">>, prog |-> << >>, pc |-> 1, res |-> "Ok",
     n |-> 0, h |-> NoSeq, size |-> 0, ix |-> 0, item |-> ZeroColItem,
     block |-> << >>, list |-> [ixmap |-> EmptyMap, map |-> EmptyMap],
     rd |-> FALSE, lock |-> << >>]

\* a data method that returns without joining its update task
ProgNoJoin(op, c, d) == << [i |-> "spawn_update", c |-> c, d |-> ""] >>

\* a method that opens the column before the record enters col.list
ProgMapsFirst(op, c, d) ==
    << [i |-> "seq_new", c |-> c, d |-> ""],
       [i |-> "col_map_insert", c |-> c, d |-> ""],
       [i |-> "seq_map_insert", c |-> c, d |-> ""],
       [i |-> "list_add", c |-> c, d |-> ""] >>

\* _col_open of column k
ProgOpen(k) ==
    << [i |-> "seq_new", c |-> k, d |-> ""],
       [i |-> "col_map_insert", c |-> k, d |-> ""],
       [i |-> "seq_map_insert", c |-> k, d |-> ""] >>

\* the steps of a method called on the columns c and d, and those of the
\* tasks a JoinSet spawns ("resize", "update")
Prog(op, c, d) ==
    LET I(i, k)  == [i |-> i, c |-> k, d |-> ""]
        Close(k) == << I("seq_map_remove", k), I("col_map_remove", k) >>
        Io(i)    == << I("seq_lock", ""), I(i, "") >>
    IN  CASE op = "feed_add" ->
                << I("feed_absent", ""), I("create_dir", ""),
                   I("feed_list_add", ""), I("open_list", ""),
                   I("map_new", "col_map_mapping"),
                   I("map_new", "seq_mapping"),
                   I("feed_map_insert", ""), I("col_list_insert", "") >>
          [] op = "feed_remove" ->
                << I("feed_present", ""), I("close_map", "seq_mapping"),
                   I("close_map", "col_list_mapping"),
                   I("close_map", "col_map_mapping"), I("close_feed", ""),
                   I("feed_list_remove", ""), I("remove_dir", "") >>
          [] op = "col_add" ->
                << I("feed_present", ""), I("col_absent", c),
                   I("list_add", c) >> \o ProgOpen(c)
                \o << I("read_size", ""), I("seq_read", c) >> \o Io("resize")
          [] op = "col_remove" ->
                << I("feed_present", ""), I("col_present", c) >> \o Close(c)
                \o << I("list_remove", c), I("remove_file", c) >>
          [] op = "col_rename" ->
                << I("feed_present", ""), I("col_present", c),
                   I("col_absent", d) >> \o Close(c)
                \o << [i |-> "list_modify", c |-> c, d |-> d],
                      [i |-> "rename_file", c |-> c, d |-> d] >>
                \o ProgOpen(d)
          [] op = "size_set" ->
                << I("spawn_resize", ""), I("join", ""),
                   I("size_record", "") >>
          [] op = "raw_set" -> << I("seq_read", c) >> \o Io("update")
          [] op = "data_patch" ->
                << I("spawn_update", c) >>
                \o (IF d = "" THEN << >> ELSE << I("spawn_update", d) >>)
                \o << I("join", "") >>
          [] op = "data_save" -> << I("read_cols", ""), I("join", "") >>
          [] op = "data_push" ->
                << I("read_ix", ""), I("spawn_resize", ""), I("join", ""),
                   I("size_record", ""), I("spawn_update", c) >>
                \o (IF d = "" THEN << >> ELSE << I("spawn_update", d) >>)
                \o << I("join", "") >>
          [] op = "resize" -> Io("resize")
          [] op = "update" -> Io("update")

\* the steps of a loop over the columns `cols`: _col_open of each
\* ("open"), or one step i for each
RECURSIVE ProgEach(_, _)
ProgEach(i, cols) ==
    IF cols = {} THEN << >>
    ELSE LET k == CHOOSE x \in cols : TRUE
         IN  (IF i = "open" THEN ProgOpen(k)
              ELSE << [i |-> i, c |-> k, d |-> ""] >>)
             \o ProgEach(i, cols \ {k})

\* the handles of Conn::new, each with its own Mutex
WithMx(st) ==
    [st EXCEPT !.seq_mapping =
        [g \in DOMAIN @ |->
            [k \in DOMAIN @[g] |->
                [feed |-> g, col |-> k, block_size |-> @[g][k].block_size,
                 mx |-> <<0, k>>]]]]

InitSteps ==
    LET s1 == feed_add(EmptySt, TheFeed).st
        s2 == col_add(s1, TheFeed, "x", "Int32").st
        s3 == size_set(s2, TheFeed, 1, {}).st
        s4 == WithMx(Conn_new(s3).st)
    IN  /\ fs_feed_list = s4.fs_feed_list
        /\ fs_dirs = s4.fs_dirs
        /\ feed_list = s4.feed_list
        /\ feed_map = s4.feed_map
        /\ col_list_mapping = s4.col_list_mapping
        /\ col_map_mapping = s4.col_map_mapping
        /\ seq_mapping = s4.seq_mapping
        /\ last = NoCall
        /\ tasks = [id \in StepTasks \X ({"main"} \cup Cols) |-> IdleStep]

\* the step task id is at
Cur(id) ==
    IF tasks[id].pc <= Len(tasks[id].prog) THEN tasks[id].prog[tasks[id].pc]
    ELSE [i |-> "", c |-> "", d |-> ""]

\* a task whose method has returned res (or panicked): its guards and its
\* locals are dropped
Ended(loc, res) ==
    [IdleStep EXCEPT !.op = loc.op, !.arg = loc.arg, !.res = res]

\* task id has done its step: the state is st and the locals are those of tk
StepTo(id, st, tk) ==
    /\ tasks' = [tk EXCEPT ![id] = IF @.pc < Len(@.prog)
                                   THEN [@ EXCEPT !.pc = @ + 1]
                                   ELSE Ended(@, "Ok")]
    /\ Apply(st) /\ UNCHANGED last

\* the method of task id returns res (or panics) at this step: its guards
\* are dropped, and its JoinSet is dropped with it, which aborts the tasks
\* it has spawned
End(id, st, res) ==
    /\ tasks' = [o \in DOMAIN tasks |->
                    IF o = id THEN Ended(tasks[o], res)
                    ELSE IF /\ id[2] = "main" /\ o[1] = id[1]
                            /\ tasks[o].pc <= Len(tasks[o].prog)
                    THEN Ended(tasks[o], "Aborted")
                    ELSE tasks[o]]
    /\ Apply(st) /\ UNCHANGED last

\* the file of handle h is renamed or replaced (to = "" when it is
\* unlinked): the handle follows its file
Retarget(h, from, to) ==
    IF h.col = to /\ to # "" THEN [h EXCEPT !.col = ""]
    ELSE IF h.col = from THEN [h EXCEPT !.col = to]
    ELSE h

\* every handle of the Conn and of its tasks after such a change
RetargetAll(st, from, to) ==
    [st EXCEPT !.seq_mapping =
        [g \in DOMAIN @ |->
            [k \in DOMAIN @[g] |-> Retarget(@[g][k], from, to)]]]

RetargetTasks(from, to) ==
    [o \in DOMAIN tasks |->
        [tasks[o] EXCEPT !.h = Retarget(@, from, to)]]

\* the columns of the catalog that have no file: <<feed, column>>
NoFile(st) ==
    {<<f, c>> \in Feeds \X Cols :
        /\ f \in KeysOf(st.fs_feed_list) /\ f \in DOMAIN st.fs_dirs
        /\ c \in KeysOf(st.fs_dirs[f].col_list)
        /\ c \notin DOMAIN st.fs_dirs[f].seqs}

\* the files of no column of the catalog: <<feed, file>>
Stray(st) ==
    {<<f, c>> \in Feeds \X Cols :
        /\ f \in DOMAIN st.fs_dirs
        /\ c \in DOMAIN st.fs_dirs[f].seqs
        /\ c \notin KeysOf(st.fs_dirs[f].col_list)}

\* no other task holds the read guard of seq_mapping
NoReader(id) == \A o \in DOMAIN tasks \ {id} : ~tasks[o].rd

\* the methods that open and close the feed
FeedOps == {"feed_add", "feed_remove"}

\* the task spawned with handle h by task id for a resize or an update
Spawned(id, op, h, block) ==
    [IdleStep EXCEPT !.op = op, !.prog = Prog(op, "", ""), !.h = h,
                     !.size = tasks[id].size, !.ix = tasks[id].ix,
                     !.n = tasks[id].n, !.block = block]

NextSteps ==
    \* a task calls a method
    \/ \E t \in StepTasks, c \in Cols, d \in Cols \cup {""}, s \in {0, 2},
          op \in {"feed_add", "feed_remove", "col_add", "col_remove",
                  "col_rename", "size_set", "raw_set", "data_patch",
                  "data_save", "data_push"} :
          /\ last.n < MaxStepCalls /\ last.op # "Conn::new"
          /\ \A k \in {"main"} \cup Cols : Cur(<<t, k>>).i = ""
          /\ op = "col_rename" => d \notin {c, ""}
          /\ op \in {"data_patch", "data_save", "data_push"} => d # c
          /\ op \notin {"col_rename", "data_patch", "data_save", "data_push"}
                => d = ""
          /\ op \in FeedOps \cup {"size_set"} => c = "x"
          /\ op # "size_set" => s = 0
          /\ op \in FeedOps => \A o \in DOMAIN tasks : Cur(o).i = ""
          /\ \A o \in DOMAIN tasks : Cur(o).i # "" => tasks[o].op \notin FeedOps
          /\ tasks' = [o \in DOMAIN tasks |->
                          IF o = <<t, "main">>
                          THEN [IdleStep EXCEPT
                                   !.op = op, !.arg = <<c, d>>,
                                   !.prog = Prog(op, c, d), !.size = s,
                                   !.n = last.n + 1,
                                   !.block = <<last.n + 1, 0, 0, 0>>]
                          \* the JoinSet of an earlier call is gone
                          ELSE IF o[1] = t THEN IdleStep
                          ELSE tasks[o]]
          /\ last' = [last EXCEPT !.n = @ + 1]
          /\ Apply(St)
    \* feed_exists
    \/ \E id \in DOMAIN tasks :
          /\ Cur(id).i \in {"feed_present", "feed_absent"}
          /\ IF feed_exists(St, TheFeed) = (Cur(id).i = "feed_present")
             THEN StepTo(id, St, tasks)
             ELSE End(id, St, IF Cur(id).i = "feed_present" THEN "NotFound"
                              ELSE "AlreadyExists")
    \* col_exists: col_map_mapping.read().await[feed_name]
    \/ \E id \in DOMAIN tasks :
          /\ Cur(id).i \in {"col_present", "col_absent"}
          /\ IF TheFeed \notin DOMAIN col_map_mapping
             THEN End(id, St, "Panic")
             ELSE IF col_exists(St, TheFeed, Cur(id).c)
                        = (Cur(id).i = "col_present")
             THEN StepTo(id, St, tasks)
             ELSE End(id, St, IF Cur(id).i = "col_present" THEN "NotFound"
                              ELSE "AlreadyExists")
    \* col_add: ColItem::new and col_list_mapping...add(&col_item)
    \/ \E id \in DOMAIN tasks :
          /\ Cur(id).i = "list_add"
          /\ IF TheFeed \notin DOMAIN col_list_mapping
             THEN End(id, St, "Panic")
             ELSE LET item == ColItem_new(Cur(id).c, "Int32").item
                      a    == List_add(ColList(St, TheFeed), item)
                  IN  IF a.res # "Ok" THEN End(id, St, a.res)
                      ELSE StepTo(id, PutColList(St, TheFeed, a),
                                  [tasks EXCEPT ![id].item = item])
    \* col_remove: col_list_mapping...remove(&col_name)
    \/ \E id \in DOMAIN tasks :
          /\ Cur(id).i = "list_remove"
          /\ IF TheFeed \notin DOMAIN col_list_mapping
             THEN End(id, St, "Panic")
             ELSE LET r == List_remove(ColList(St, TheFeed), Cur(id).c,
                                       ZeroColItem)
                  IN  IF r.res # "Ok" THEN End(id, St, r.res)
                      ELSE StepTo(id, PutColList(St, TheFeed, r), tasks)
    \* col_rename: col_item.rename(name_new) and
    \* col_list_mapping...modify(&name, &col_item)
    \/ \E id \in DOMAIN tasks :
          /\ Cur(id).i = "list_modify"
          /\ IF TheFeed \notin DOMAIN col_list_mapping
             THEN End(id, St, "Panic")
             ELSE LET item == Item_rename(tasks[id].item, Cur(id).d)
                      m    == List_modify(ColList(St, TheFeed), Cur(id).c,
                                          item, ZeroColItem)
                  IN  IF m.res # "Ok" THEN End(id, St, m.res)
                      ELSE StepTo(id, PutColList(St, TheFeed, m),
                                  [tasks EXCEPT ![id].item = item])
    \* _col_open: Seq::new opens the column file and creates a missing one
    \/ \E id \in DOMAIN tasks :
          /\ Cur(id).i = "seq_new"
          /\ LET c    == Cur(id).c
                 item == IF c \in DOMAIN tasks[id].list.map
                         THEN tasks[id].list.map[c] ELSE tasks[id].item
                 h    == [feed |-> TheFeed, col |-> c,
                          block_size |-> Datatype_size(item.datatype),
                          mx |-> <<tasks[id].n, c>>]
             IN  IF TheFeed \notin DOMAIN fs_dirs
                 THEN End(id, St, "NotFound")
                 ELSE StepTo(id,
                             IF c \in DOMAIN fs_dirs[TheFeed].seqs THEN St
                             ELSE [St EXCEPT !.fs_dirs[TheFeed].seqs =
                                                 MapInsert(@, c, << >>)],
                             [tasks EXCEPT ![id].h = h, ![id].item = item])
    \* _col_open: col_map_mapping.write().await.get_mut(feed_name).unwrap()
    \* .insert(col_name, col_item)
    \/ \E id \in DOMAIN tasks :
          /\ Cur(id).i = "col_map_insert"
          /\ IF TheFeed \notin DOMAIN col_map_mapping
             THEN End(id, St, "Panic")
             ELSE StepTo(id, [St EXCEPT !.col_map_mapping[TheFeed] =
                                 MapInsert(@, Cur(id).c, tasks[id].item)],
                         tasks)
    \* _col_open: seq_mapping.write().await.get_mut(feed_name).unwrap()
    \* .insert(col_name, seq)
    \/ \E id \in DOMAIN tasks :
          /\ Cur(id).i = "seq_map_insert"
          /\ NoReader(id)
          /\ IF TheFeed \notin DOMAIN seq_mapping
             THEN End(id, St, "Panic")
             ELSE StepTo(id, [St EXCEPT !.seq_mapping[TheFeed] =
                                 MapInsert(@, Cur(id).c, tasks[id].h)],
                         tasks)
    \* _col_close: seq_mapping.write().await.get_mut(feed_name).unwrap()
    \* .remove(col_name)
    \/ \E id \in DOMAIN tasks :
          /\ Cur(id).i = "seq_map_remove"
          /\ NoReader(id)
          /\ IF TheFeed \notin DOMAIN seq_mapping
             THEN End(id, St, "Panic")
             ELSE StepTo(id, [St EXCEPT !.seq_mapping[TheFeed] =
                                 MapRemove(@, Cur(id).c)],
                         tasks)
    \* _col_close: col_map_mapping.write().await.get_mut(feed_name).unwrap()
    \* .remove(col_name).unwrap()
    \/ \E id \in DOMAIN tasks :
          /\ Cur(id).i = "col_map_remove"
          /\ IF \/ TheFeed \notin DOMAIN col_map_mapping
                \/ Cur(id).c \notin DOMAIN col_map_mapping[TheFeed]
             THEN End(id, St, "Panic")
             ELSE StepTo(id, [St EXCEPT !.col_map_mapping[TheFeed] =
                                 MapRemove(@, Cur(id).c)],
                         [tasks EXCEPT ![id].item =
                             col_map_mapping[TheFeed][Cur(id).c]])
    \* col_rename: rename(seq_path, seq_path_new)
    \/ \E id \in DOMAIN tasks :
          /\ Cur(id).i = "rename_file"
          /\ LET r == RenameFile(St, TheFeed, Cur(id).c, Cur(id).d)
             IN  IF r.res # "Ok" THEN End(id, St, r.res)
                 ELSE StepTo(id, RetargetAll(r.st, Cur(id).c, Cur(id).d),
                             RetargetTasks(Cur(id).c, Cur(id).d))
    \* col_remove: remove_file(seq_path)
    \/ \E id \in DOMAIN tasks :
          /\ Cur(id).i = "remove_file"
          /\ LET r == RemoveFile(St, TheFeed, Cur(id).c)
             IN  IF r.res # "Ok" THEN End(id, St, r.res)
                 ELSE StepTo(id, RetargetAll(r.st, Cur(id).c, ""),
                             RetargetTasks(Cur(id).c, ""))
    \* col_add: size = feed_map.read().await[feed_name].size; data_push:
    \* ix = feed_map.read().await[feed_name].size and size_set(ix + size)
    \/ \E id \in DOMAIN tasks :
          /\ Cur(id).i \in {"read_size", "read_ix"}
          /\ IF TheFeed \notin DOMAIN feed_map THEN End(id, St, "Panic")
             ELSE StepTo(id, St,
                         IF Cur(id).i = "read_size"
                         THEN [tasks EXCEPT
                                  ![id].size = feed_map[TheFeed].size]
                         ELSE [tasks EXCEPT
                                  ![id].ix = feed_map[TheFeed].size,
                                  ![id].size = feed_map[TheFeed].size + 1])
    \* let seq = &self.seq_mapping.read().await[feed_name][col_name]
    \/ \E id \in DOMAIN tasks :
          /\ Cur(id).i = "seq_read"
          /\ IF \/ TheFeed \notin DOMAIN seq_mapping
                \/ Cur(id).c \notin DOMAIN seq_mapping[TheFeed]
             THEN End(id, St, "Panic")
             ELSE StepTo(id, St,
                         [tasks EXCEPT
                             ![id].h = seq_mapping[TheFeed][Cur(id).c],
                             ![id].rd = TRUE])
    \* seq.lock().await: the Mutex of the handle is free
    \/ \E id \in DOMAIN tasks :
          /\ Cur(id).i = "seq_lock"
          /\ \A o \in DOMAIN tasks \ {id} : tasks[o].lock # tasks[id].h.mx
          /\ StepTo(id, St, [tasks EXCEPT ![id].lock = tasks[id].h.mx])
    \* Seq::resize under the Mutex; the guards are dropped
    \/ \E id \in DOMAIN tasks :
          /\ Cur(id).i = "resize"
          /\ LET h == tasks[id].h
             IN  StepTo(id,
                        WriteSeqFile(St, h,
                            Seq_resize(ReadSeqFile(St, h), h.block_size,
                                       tasks[id].size, 0)),
                        [tasks EXCEPT ![id].lock = << >>, ![id].rd = FALSE])
    \* Seq::update (seek, write_all, flush) under the Mutex; the guards are
    \* dropped
    \/ \E id \in DOMAIN tasks :
          /\ Cur(id).i = "update"
          /\ LET h == tasks[id].h
             IN  StepTo(id,
                        WriteSeqFile(St, h,
                            Seq_update(ReadSeqFile(St, h), h.block_size,
                                       tasks[id].ix, tasks[id].block, 0)),
                        [tasks EXCEPT ![id].lock = << >>, ![id].rd = FALSE])
    \* size_set: a resize task is spawned for every handle of
    \* seq_mapping.read().await[feed_name]
    \/ \E id \in DOMAIN tasks :
          /\ Cur(id).i = "spawn_resize"
          /\ IF TheFeed \notin DOMAIN seq_mapping THEN End(id, St, "Panic")
             ELSE StepTo(id, St,
                         [o \in DOMAIN tasks |->
                             IF /\ o[1] = id[1]
                                /\ o[2] \in DOMAIN seq_mapping[TheFeed]
                             THEN Spawned(id, "resize",
                                          seq_mapping[TheFeed][o[2]], << >>)
                             ELSE tasks[o]])
    \* one turn of the loop of _data_update: the col item, the block, the
    \* handle, and the update task is spawned
    \/ \E id \in DOMAIN tasks :
          /\ Cur(id).i = "spawn_update"
          /\ LET c == Cur(id).c
             IN  IF \/ TheFeed \notin DOMAIN col_map_mapping
                    \/ c \notin DOMAIN col_map_mapping[TheFeed]
                    \/ TheFeed \notin DOMAIN seq_mapping
                    \/ c \notin DOMAIN seq_mapping[TheFeed]
                 THEN End(id, St, "Panic")
                 ELSE StepTo(id, St,
                         [tasks EXCEPT
                             ![<<id[1], c>>] =
                                 Spawned(id, "update",
                                     seq_mapping[TheFeed][c],
                                     IF c \in {tasks[id].arg[1],
                                               tasks[id].arg[2]}
                                     THEN tasks[id].block
                                     ELSE Zeros(Datatype_size(
                                              col_map_mapping[TheFeed][c]
                                                  .datatype), 0))])
    \* data_save: cols = col_map_mapping.read().await[feed_name].keys()
    \/ \E id \in DOMAIN tasks :
          /\ Cur(id).i = "read_cols"
          /\ IF TheFeed \notin DOMAIN col_map_mapping
             THEN End(id, St, "Panic")
             ELSE StepTo(id, St,
                         [tasks EXCEPT ![id].prog =
                             << @[1] >>
                             \o ProgEach("spawn_update",
                                         DOMAIN col_map_mapping[TheFeed])
                             \o << @[2] >>])
    \* js.join_all().await: the spawned tasks have ended
    \/ \E id \in DOMAIN tasks :
          /\ Cur(id).i = "join"
          /\ \A k \in Cols : Cur(<<id[1], k>>).i = ""
          /\ StepTo(id, St, tasks)
    \* size_set: under the write lock of feed_map the size is set and
    \* feed.list is modified
    \/ \E id \in DOMAIN tasks :
          /\ Cur(id).i = "size_record"
          /\ IF TheFeed \notin DOMAIN feed_map THEN End(id, St, "Panic")
             ELSE LET st2 == [St EXCEPT
                                 !.feed_map[TheFeed].size = tasks[id].size]
                      m   == List_modify(FeedList(st2), TheFeed,
                                         st2.feed_map[TheFeed], ZeroFeedItem)
                  IN  IF m.res # "Ok" THEN End(id, st2, m.res)
                      ELSE StepTo(id, PutFeedList(st2, m), tasks)
    \* feed_add: create_dir_all(feed_path)
    \/ \E id \in DOMAIN tasks :
          /\ Cur(id).i = "create_dir"
          /\ StepTo(id, CreateDirAll(St, TheFeed), tasks)
    \* feed_add: feed_list.write().await.add(&feed_item)
    \/ \E id \in DOMAIN tasks :
          /\ Cur(id).i = "feed_list_add"
          /\ LET a == List_add(FeedList(St), FeedItem_new(TheFeed).item)
             IN  IF a.res # "Ok" THEN End(id, St, a.res)
                 ELSE StepTo(id, PutFeedList(St, a), tasks)
    \* _feed_open: List::new on col.list and its map(); the loop over the
    \* columns follows the two empty maps
    \/ \E id \in DOMAIN tasks :
          /\ Cur(id).i = "open_list"
          /\ IF TheFeed \notin DOMAIN fs_dirs THEN End(id, St, "NotFound")
             ELSE LET st1 == [St EXCEPT
                                 !.fs_dirs[TheFeed].has_col_list = TRUE]
                      l   == List_new(st1.fs_dirs[TheFeed].col_list)
                      map == List_map(l.col)
                  IN  StepTo(id, st1,
                             [tasks EXCEPT
                                 ![id].list = [ixmap |-> l.ixmap,
                                               map |-> map],
                                 ![id].prog =
                                     SubSeq(@, 1, 6)
                                     \o ProgEach("open", DOMAIN map)
                                     \o SubSeq(@, 7, Len(@))])
    \* _feed_open: col_map_mapping and seq_mapping take an empty map
    \/ \E id \in DOMAIN tasks :
          /\ Cur(id).i = "map_new"
          /\ Cur(id).c = "seq_mapping" => NoReader(id)
          /\ StepTo(id,
                    IF Cur(id).c = "seq_mapping"
                    THEN [St EXCEPT !.seq_mapping =
                                        MapInsert(@, TheFeed, EmptyMap)]
                    ELSE [St EXCEPT !.col_map_mapping =
                                        MapInsert(@, TheFeed, EmptyMap)],
                    tasks)
    \* _feed_open: feed_map.write().await.insert(feed_name, feed_item)
    \/ \E id \in DOMAIN tasks :
          /\ Cur(id).i = "feed_map_insert"
          /\ StepTo(id,
                    [St EXCEPT !.feed_map =
                        MapInsert(@, TheFeed, FeedItem_new(TheFeed).item)],
                    tasks)
    \* _feed_open: col_list_mapping.write().await.insert(feed_name, col_list)
    \/ \E id \in DOMAIN tasks :
          /\ Cur(id).i = "col_list_insert"
          /\ StepTo(id,
                    [St EXCEPT !.col_list_mapping =
                        MapInsert(@, TheFeed, tasks[id].list.ixmap)],
                    tasks)
    \* _feed_close: seq_mapping, col_list_mapping and col_map_mapping lose
    \* the feed
    \/ \E id \in DOMAIN tasks :
          /\ Cur(id).i = "close_map"
          /\ Cur(id).c = "seq_mapping" => NoReader(id)
          /\ StepTo(id,
                    CASE Cur(id).c = "seq_mapping" ->
                            [St EXCEPT !.seq_mapping = MapRemove(@, TheFeed)]
                      [] Cur(id).c = "col_list_mapping" ->
                            [St EXCEPT !.col_list_mapping =
                                           MapRemove(@, TheFeed)]
                      [] OTHER ->
                            [St EXCEPT !.col_map_mapping =
                                           MapRemove(@, TheFeed)],
                    tasks)
    \* _feed_close: feed_map.write().await.remove(feed_name).unwrap()
    \/ \E id \in DOMAIN tasks :
          /\ Cur(id).i = "close_feed"
          /\ IF TheFeed \notin DOMAIN feed_map THEN End(id, St, "Panic")
             ELSE StepTo(id, [St EXCEPT !.feed_map = MapRemove(@, TheFeed)],
                         tasks)
    \* feed_remove: feed_list.write().await.remove(&feed_name)
    \/ \E id \in DOMAIN tasks :
          /\ Cur(id).i = "feed_list_remove"
          /\ LET r == List_remove(FeedList(St), TheFeed, ZeroFeedItem)
             IN  IF r.res # "Ok" THEN End(id, St, r.res)
                 ELSE StepTo(id, PutFeedList(St, r), tasks)
    \* feed_remove: remove_dir_all(feed_path)
    \/ \E id \in DOMAIN tasks :
          /\ Cur(id).i = "remove_dir"
          /\ LET r == RemoveDirAll(St, TheFeed)
             IN  IF r.res # "Ok" THEN End(id, St, r.res)
                 ELSE StepTo(id, r.st, tasks)
    \* the process stops, at any step of its tasks, and Conn::new opens the
    \* directory again
    \/ /\ last.op # "Conn::new"
       /\ LET r == Conn_new(St)
          IN  /\ Apply(WithMx(r.st))
              /\ last' = [op |-> "Conn::new", res |-> r.res,
                          all_ok |-> FALSE, n |-> last.n,
                          created |-> NoFile(St)]
       /\ tasks' = [id \in DOMAIN tasks |-> IdleStep]

SpecSteps == InitSteps /\ [][NextSteps]_vars

\* C31: the I/O on one column file is linearized by one Seq lock: in no
\* interleaving of the methods, renames and removals included, do two tasks
\* hold the lock of a Seq of the same column file at the same time.
C31_SeqLinearized ==
    \A a \in DOMAIN tasks, b \in DOMAIN tasks :
        ( /\ a # b
          /\ tasks[a].lock # << >>
          /\ tasks[b].lock # << >> )
        => ~( /\ tasks[a].h.col # ""
              /\ tasks[a].h.col = tasks[b].h.col )

\* C32: when a data_push, data_patch or data_save has returned, every task
\* it spawned for a column has ended with its write (and flush) done: no
\* write of the call is pending or running.
C32_UpdatesJoined ==
    \A t \in StepTasks :
        ( /\ tasks[<<t, "main">>].op \in {"data_push", "data_patch",
                                          "data_save"}
          /\ Cur(<<t, "main">>).i = ""
          /\ tasks[<<t, "main">>].res # "Panic" )
        => \A k \in Cols :
              /\ Cur(<<t, k>>).i = ""
              /\ tasks[<<t, k>>].lock = << >>
              /\ tasks[<<t, k>>].res = "Ok"

\* a data method has returned Ok after its update tasks wrote both columns
C32_Witness ==
    \E t \in StepTasks :
        /\ tasks[<<t, "main">>].op \in {"data_push", "data_patch",
                                        "data_save"}
        /\ Cur(<<t, "main">>).i = ""
        /\ tasks[<<t, "main">>].res = "Ok"
        /\ \A k \in Cols : tasks[<<t, k>>].op = "update"
        /\ \A k \in Cols : k \in DOMAIN fs_dirs[TheFeed].seqs
                            /\ Len(fs_dirs[TheFeed].seqs[k]) >= 4

\* C34: while one task alone calls the methods, at every step of feed_add,
\* feed_remove, col_add, col_remove (and of the other methods): a feed held
\* by a map of the Conn has its record in feed.list and its directory, and
\* a column held by col_map_mapping or seq_mapping has its record in
\* col.list and its file.  So a creation persists the catalog record before
\* the maps take the entry, and a removal clears the maps before the record
\* or a file goes.
C34_CatalogBeforeMaps ==
    (\A k \in {"main"} \cup Cols : tasks[<<2, k>>].op = "")
    => /\ \A f \in DOMAIN feed_map \cup DOMAIN col_list_mapping
                \cup DOMAIN col_map_mapping \cup DOMAIN seq_mapping :
              /\ f \in KeysOf(fs_feed_list)
              /\ f \in DOMAIN fs_dirs
       /\ \A f \in DOMAIN col_map_mapping \cup DOMAIN seq_mapping :
              \A c \in ColsOf(St, f)
                       \cup (IF f \in DOMAIN seq_mapping
                             THEN DOMAIN seq_mapping[f] ELSE {}) :
                  /\ PersistedCol(St, f, c) # << >>
                  /\ c \in DOMAIN fs_dirs[f].seqs

\* col_add has put the record of column y into col.list and has not yet
\* opened the column
C34_Witness ==
    /\ \A k \in {"main"} \cup Cols : tasks[<<2, k>>].op = ""
    /\ tasks[<<1, "main">>].op = "col_add"
    /\ Cur(<<1, "main">>).i = "seq_new"
    /\ PersistedCol(St, TheFeed, "y") # << >>
    /\ "y" \notin DOMAIN col_map_mapping[TheFeed]

\* the files with no catalog entry are left alone by Conn::new and are no
\* columns of the Conn
StrayIgnored(st, st2) ==
    \A p \in Stray(st) :
        /\ p[1] \in DOMAIN st2.fs_dirs
        /\ p[2] \in DOMAIN st2.fs_dirs[p[1]].seqs
        /\ st2.fs_dirs[p[1]].seqs[p[2]] = st.fs_dirs[p[1]].seqs[p[2]]
        /\ p[2] \notin ColsOf(st2, p[1])
        /\ p[1] \in DOMAIN st2.seq_mapping
              => p[2] \notin DOMAIN st2.seq_mapping[p[1]]

\* C35 as stated: on Conn::new the catalog is authoritative: a col.list
\* entry whose column file does not exist makes the whole open return an
\* error, and the files with no catalog entry are ignored.
C35_CatalogAuthoritative ==
    [][ (last.op # "Conn::new" /\ last'.op = "Conn::new")
        => /\ NoFile(St) # {} => last'.res # "Ok"
           /\ StrayIgnored(St, St') ]_vars

\* C35 as amended: on Conn::new the catalog is authoritative: a col.list
\* entry whose column file does not exist is opened all the same, Seq::new
\* making an empty file for it, and the open returns Ok with the columns of
\* the catalog; the files with no catalog entry are ignored.
C35_MissingFileCreated ==
    [][ (last.op # "Conn::new" /\ last'.op = "Conn::new")
        => /\ last'.res = "Ok"
           /\ \A p \in NoFile(St) :
                 /\ p[2] \in ColsOf(St', p[1])
                 /\ p[2] \in DOMAIN seq_mapping'[p[1]]
                 /\ fs_dirs'[p[1]].seqs[p[2]] = << >>
           /\ \A f \in KeysOf(fs_feed_list) :
                 ColsOf(St', f) = KeysOf(fs_dirs[f].col_list)
           /\ StrayIgnored(St, St') ]_vars

\* Conn::new has opened a directory whose col.list had a column without a
\* file, next to a file of no column
C35_Witness ==
    /\ last.op = "Conn::new" /\ last.res = "Ok"
    /\ last.created # {}
    /\ Stray(St) # {}
    /\ \A p \in last.created : fs_dirs[p[1]].seqs[p[2]] = << >>

\* C36: while one task alone calls the methods and its size_set has joined
\* the resize tasks and has not yet recorded the new size (a stop of the
\* process here leaves the disk as it is), every column of col.list has a
\* file of at least as many rows as the size that feed.list records.
C36_FilesNotShorter ==
    ( /\ \A k \in {"main"} \cup Cols : tasks[<<2, k>>].op = ""
      /\ tasks[<<1, "main">>].op = "size_set"
      /\ Cur(<<1, "main">>).i = "size_record"
      /\ TheFeed \in DOMAIN fs_dirs )
    => \A c \in KeysOf(fs_dirs[TheFeed].col_list) :
          /\ c \in DOMAIN fs_dirs[TheFeed].seqs
          /\ Len(fs_dirs[TheFeed].seqs[c])
                >= PersistedSize(St, TheFeed)
                   * Datatype_size(PersistedCol(St, TheFeed, c)[1].datatype)

\* C39: when a col_add(f, c, ..) of one task and a size_set(f, s) of the
\* other have both returned Ok, the file of c has size_get(f) rows.
C39_NewColumnSized ==
    \A t \in StepTasks, c \in Cols :
        ( /\ \A o \in DOMAIN tasks : Cur(o).i = ""
          /\ tasks[<<t, "main">>].op = "col_add"
          /\ tasks[<<t, "main">>].arg[1] = c
          /\ tasks[<<t, "main">>].res = "Ok"
          /\ \E u \in StepTasks \ {t} :
                /\ tasks[<<u, "main">>].op = "size_set"
                /\ tasks[<<u, "main">>].res = "Ok" )
        => /\ feed_exists(St, TheFeed)
           /\ c \in ColsOf(St, TheFeed)
           /\ c \in DOMAIN fs_dirs[TheFeed].seqs
           /\ Len(fs_dirs[TheFeed].seqs[c])
                 = size_get(St, TheFeed).size
                   * Datatype_size(col_map_mapping[TheFeed][c].datatype)

(***************************************************************************)
(* SpecFair: the locks of the Conn as tokio grants them.  RwLock and Mutex *)
(* are built on a semaphore with a queue of waiters: a task that cannot    *)
(* take a lock joins the queue of the lock, the locks are granted from the *)
(* head of the queue, and a task that finds waiters queues behind them, so *)
(* a waiting writer blocks later readers.  Task 1 calls raw_get, task 2    *)
(* data_patch, tasks 3 and 4 col_add; the methods are the lock             *)
(* instructions of LockProg.  last.q holds the queue of every lock.        *)
(***************************************************************************)
FairTasks == {1, 2, 3, 4}

\* the methods task t calls
FairMenu(t) ==
    CASE t = 1 -> {"raw_get"}
      [] t = 2 -> {"data_patch"}
      [] OTHER -> {"col_add"}

InitFair ==
    LET s1 == feed_add(EmptySt, "f").st
        s2 == col_add(s1, "f", "x", "Int64").st
        s3 == col_add(s2, "f", "y", "Int32").st
        s4 == Conn_new(s3).st
    IN  /\ fs_feed_list = s4.fs_feed_list
        /\ fs_dirs = s4.fs_dirs
        /\ feed_list = s4.feed_list
        /\ feed_map = s4.feed_map
        /\ col_list_mapping = s4.col_list_mapping
        /\ col_map_mapping = s4.col_map_mapping
        /\ seq_mapping = s4.seq_mapping
        /\ last = [op |-> "", q |-> [l \in MapLocks \cup Cols |-> << >>]]
        /\ tasks = [id \in FairTasks \X ({"main"} \cup Cols) |->
                      [prog |-> << >>, pc |-> 1, held |-> {}, n |-> 0]]

\* the instruction task id is at; i = "" when the task has ended
FairCur(id) ==
    IF tasks[id].pc <= Len(tasks[id].prog)
    THEN tasks[id].prog[tasks[id].pc]
    ELSE [i |-> "", l |-> "", m |-> ""]

\* task id waits in the queue of the lock of its instruction
Waits(id) ==
    /\ FairCur(id).i = "acq"
    /\ \E k \in DOMAIN last.q[FairCur(id).l] : last.q[FairCur(id).l][k] = id

\* task id can take a step: a waiter is granted the lock at the head of the
\* queue when the holders allow it; join waits for the spawned tasks
CanStep(id) ==
    CASE FairCur(id).i = "" -> FALSE
      [] FairCur(id).i = "acq" ->
            Waits(id) => /\ Head(last.q[FairCur(id).l]) = id
                         /\ CanAcquire(id, FairCur(id))
      [] FairCur(id).i = "join" ->
            \A c \in Cols : FairCur(<<id[1], c>>).i = ""
      [] OTHER -> TRUE

NextFair ==
    \* a task calls a method
    \/ \E t \in FairTasks, method \in {"raw_get", "data_patch", "col_add"} :
          /\ method \in FairMenu(t)
          /\ \A k \in {"main"} \cup Cols : FairCur(<<t, k>>).i = ""
          /\ tasks[<<t, "main">>].n < MaxLockCalls
          /\ tasks' = [tasks EXCEPT
                          ![<<t, "main">>] =
                              [prog |-> LockProg(method, "x"), pc |-> 1,
                               held |-> {}, n |-> @.n + 1]]
          /\ Apply(St) /\ UNCHANGED last
    \* .read().await, .write().await, .lock().await of a lock without
    \* waiters that the holders allow: the guard is returned at once
    \/ \E id \in DOMAIN tasks :
          /\ FairCur(id).i = "acq" /\ ~Waits(id)
          /\ last.q[FairCur(id).l] = << >>
          /\ CanAcquire(id, FairCur(id))
          /\ tasks' = [tasks EXCEPT
                          ![id].held = @ \cup {[l |-> FairCur(id).l,
                                                m |-> FairCur(id).m]},
                          ![id].pc = @ + 1]
          /\ Apply(St) /\ UNCHANGED last
    \* the same of a lock that is held against the task or has waiters: the
    \* task joins the queue
    \/ \E id \in DOMAIN tasks :
          /\ FairCur(id).i = "acq" /\ ~Waits(id)
          /\ ~( /\ last.q[FairCur(id).l] = << >>
                /\ CanAcquire(id, FairCur(id)) )
          /\ last' = [last EXCEPT !.q[FairCur(id).l] = Append(@, id)]
          /\ Apply(St) /\ UNCHANGED tasks
    \* the waiter at the head of the queue is granted the lock
    \/ \E id \in DOMAIN tasks :
          /\ Waits(id) /\ CanStep(id)
          /\ tasks' = [tasks EXCEPT
                          ![id].held = @ \cup {[l |-> FairCur(id).l,
                                                m |-> FairCur(id).m]},
                          ![id].pc = @ + 1]
          /\ last' = [last EXCEPT !.q[FairCur(id).l] = Tail(@)]
          /\ Apply(St)
    \* the drop of a guard
    \/ \E id \in DOMAIN tasks :
          /\ FairCur(id).i = "rel"
          /\ \E h \in tasks[id].held :
                /\ h.l = FairCur(id).l
                /\ tasks' = [tasks EXCEPT ![id].held = @ \ {h},
                                          ![id].pc = @ + 1]
          /\ Apply(St) /\ UNCHANGED last
    \* js.spawn: the task of the Seq of column c starts
    \/ \E id \in DOMAIN tasks :
          /\ FairCur(id).i = "spawn"
          /\ tasks' = [tasks EXCEPT
                          ![id].pc = @ + 1,
                          ![<<id[1], FairCur(id).l>>] =
                              [prog |-> LockProg("seq_task", FairCur(id).l),
                               pc |-> 1, held |-> {}, n |-> 0]]
          /\ Apply(St) /\ UNCHANGED last
    \* join_all: the spawned tasks have ended
    \/ \E id \in DOMAIN tasks :
          /\ FairCur(id).i = "join" /\ CanStep(id)
          /\ tasks' = [tasks EXCEPT ![id].pc = @ + 1]
          /\ Apply(St) /\ UNCHANGED last

SpecFair == InitFair /\ [][NextFair]_vars

\* C37: the calls never deadlock: in no state have some tasks not ended
\* while none of them can take a step (every one of them waits for a lock
\* that a waiting task holds or queues before it, or for such a task's end).
C37_NoDeadlock ==
    (\E id \in DOMAIN tasks : FairCur(id).i # "")
    => \E id \in DOMAIN tasks : CanStep(id)

====
